---- MODULE Spec2Model ----
(***************************************************************************)
(* A model of the financial agent "Stella": the request pipeline of        *)
(* src/agent.py (router_node, the five executor nodes, run_agent).         *)
(*                                                                         *)
(* Text is modelled as a sequence of strings.  A query, a ticker, a        *)
(* company name and a reply of the text-generation service are sequences   *)
(* of one-character strings, so that the regular expressions and the str   *)
(* methods of the source are computed character by character.  Longer      *)
(* fixed strings of the source (messages, labels) are one element each.    *)
(***************************************************************************)
EXTENDS Integers, Sequences, FiniteSets, TLC

(***************************************************************************)
(* Characters and the str methods used by the source.                      *)
(***************************************************************************)
UpperChars ==
    <<"A","B","C","D","E","F","G","H","I","J","K","L","M",
      "N","O","P","Q","R","S","T","U","V","W","X","Y","Z">>

LowerChars ==
    <<"a","b","c","d","e","f","g","h","i","j","k","l","m",
      "n","o","p","q","r","s","t","u","v","w","x","y","z">>

DigitChars ==
    {"0","1","2","3","4","5","6","7","8","9"}

UpperSet ==
    {UpperChars[i] : i \in DOMAIN UpperChars}

LowerSet ==
    {LowerChars[i] : i \in DOMAIN LowerChars}

IsUpper(c) ==
    c \in UpperSet

IsLower(c) ==
    c \in LowerSet

IsDigit(c) ==
    c \in DigitChars

\* \w of the re module, for the characters of the model.
IsWordChar(c) ==
    IsUpper(c) \/ IsLower(c) \/ IsDigit(c) \/ c = "_"

\* \s of the re module and the characters str.strip() removes.
IsSpace(c) ==
    c \in {" ", "\t", "\n", "\r"}

LowerChar(c) ==
    IF IsUpper(c)
    THEN LowerChars[CHOOSE i \in DOMAIN UpperChars : UpperChars[i] = c]
    ELSE c

UpperChar(c) ==
    IF IsLower(c)
    THEN UpperChars[CHOOSE i \in DOMAIN LowerChars : LowerChars[i] = c]
    ELSE c

\* str.lower()
RECURSIVE Lower(_)
Lower(s) ==
    IF s = <<>> THEN <<>> ELSE <<LowerChar(Head(s))>> \o Lower(Tail(s))

\* str.upper()
RECURSIVE Upper(_)
Upper(s) ==
    IF s = <<>> THEN <<>> ELSE <<UpperChar(Head(s))>> \o Upper(Tail(s))

\* str.strip()
Strip(s) ==
    LET keep == {i \in 1..Len(s) : ~IsSpace(s[i])}
    IN  IF keep = {} THEN <<>>
        ELSE SubSeq(s, CHOOSE i \in keep : \A j \in keep : i <= j,
                       CHOOSE i \in keep : \A j \in keep : j <= i)

\* s[i:] starts with p
StartsAt(s, p, i) ==
    /\ i >= 1
    /\ i + Len(p) - 1 <= Len(s)
    /\ \A k \in 1..Len(p) : s[i + k - 1] = p[k]

\* p in s
Contains(s, p) ==
    \E i \in 1..(Len(s) + 1) : StartsAt(s, p, i)

\* the least index at which p occurs in s, 0 when it does not occur
Find(s, p) ==
    LET at == {i \in 1..(Len(s) + 1) : StartsAt(s, p, i)}
    IN  IF at = {} THEN 0 ELSE CHOOSE i \in at : \A j \in at : i <= j

\* s.replace(p, ""), p not empty: every occurrence, from the left
RECURSIVE RemoveAll(_, _)
RemoveAll(s, p) ==
    LET i == Find(s, p)
    IN  IF i = 0 THEN s
        ELSE SubSeq(s, 1, i - 1) \o RemoveAll(SubSeq(s, i + Len(p), Len(s)), p)

\* s.split(sep), sep not empty
RECURSIVE Split(_, _)
Split(s, sep) ==
    LET i == Find(s, sep)
    IN  IF i = 0 THEN <<s>>
        ELSE <<SubSeq(s, 1, i - 1)>> \o Split(SubSeq(s, i + Len(sep), Len(s)), sep)

\* sep.join(items)
RECURSIVE Join(_, _)
Join(items, sep) ==
    IF items = <<>> THEN <<>>
    ELSE IF Len(items) = 1 THEN items[1]
    ELSE items[1] \o sep \o Join(Tail(items), sep)

(***************************************************************************)
(* The regular expressions of router_node.                                 *)
(***************************************************************************)
\* the number of leading characters of s that \d+ consumes
LeadingDigits(s) ==
    Cardinality({i \in 1..Len(s) : \A j \in 1..i : IsDigit(s[j])})

\* the number of leading characters of s that \s* consumes
LeadingSpaces(s) ==
    Cardinality({i \in 1..Len(s) : \A j \in 1..i : IsSpace(s[j])})

\* re.match(r'^(\d+):\s*(.*)', s) is not None
PrefixMatches(s) ==
    LET d == LeadingDigits(s)
    IN  d >= 1 /\ d < Len(s) /\ s[d + 1] = ":"

\* match.group(1)
PrefixGroup1(s) ==
    SubSeq(s, 1, LeadingDigits(s))

\* match.group(2): after the colon and the white space, the characters up to
\* the first line break ('.' does not match "\n")
PrefixGroup2(s) ==
    LET rest  == SubSeq(s, LeadingDigits(s) + 2, Len(s))
        after == SubSeq(rest, LeadingSpaces(rest) + 1, Len(rest))
        nl    == Find(after, <<"\n">>)
    IN  IF nl = 0 THEN after ELSE SubSeq(after, 1, nl - 1)

\* re.search(r'\b' + re.escape(w) + r'\b', s) is not None, for a w that
\* starts and ends with a word character
WordSearch(s, w) ==
    \E i \in 1..Len(s) :
        /\ StartsAt(s, w, i)
        /\ (i = 1 \/ ~IsWordChar(s[i - 1]))
        /\ (i + Len(w) - 1 = Len(s) \/ ~IsWordChar(s[i + Len(w)]))

\* the lengths m for which [A-Z]{2,5}\b matches s at i
TickerLengths(s, i) ==
    {m \in 2..5 :
        /\ i + m - 1 <= Len(s)
        /\ \A k \in 0..(m - 1) : IsUpper(s[i + k])
        /\ (i + m - 1 = Len(s) \/ ~IsWordChar(s[i + m]))}

\* re.findall(r'\b[A-Z]{2,5}\b', s), scanning from index i
RECURSIVE FindTickers(_, _)
FindTickers(s, i) ==
    IF i > Len(s) THEN <<>>
    ELSE LET ms == IF i = 1 \/ ~IsWordChar(s[i - 1])
                   THEN TickerLengths(s, i) ELSE {}
         IN  IF ms = {} THEN FindTickers(s, i + 1)
             ELSE LET m == CHOOSE x \in ms : \A y \in ms : y <= x
                  IN  <<SubSeq(s, i, i + m - 1)>> \o FindTickers(s, i + m)

(***************************************************************************)
(* Constants of src/agent.py.                                              *)
(***************************************************************************)
\* the dict common_companies, in its iteration (insertion) order
common_companies ==
    <<
    [key |-> <<"a","p","p","l","e">>,
     company |-> <<"A","p","p","l","e">>,
     ticker |-> <<"A","A","P","L">>],
    [key |-> <<"n","v","i","d","i","a">>,
     company |-> <<"N","v","i","d","i","a">>,
     ticker |-> <<"N","V","D","A">>],
    [key |-> <<"t","e","s","l","a">>,
     company |-> <<"T","e","s","l","a">>,
     ticker |-> <<"T","S","L","A">>],
    [key |-> <<"s","a","m","s","u","n","g">>,
     company |-> <<"S","a","m","s","u","n","g">>,
     ticker |-> <<"0","0","5","9","3","0",".","K","S">>],
    [key |-> <<"m","c","d","o","n","a","l","d","s">>,
     company |-> <<"M","c","D","o","n","a","l","d","s">>,
     ticker |-> <<"M","C","D">>],
    [key |-> <<"m","i","c","r","o","s","o","f","t">>,
     company |-> <<"M","i","c","r","o","s","o","f","t">>,
     ticker |-> <<"M","S","F","T">>],
    [key |-> <<"a","l","i","b","a","b","a">>,
     company |-> <<"A","l","i","b","a","b","a">>,
     ticker |-> <<"B","A","B","A">>],
    [key |-> <<"h","y","u","n","d","a","i">>,
     company |-> <<"H","y","u","n","d","a","i">>,
     ticker |-> <<"0","0","5","3","8","0",".","K","S">>],
    [key |-> <<"b","a","n","k"," ","o","f"," ","a","m","e","r","i","c","a">>,
     company |-> <<"B","a","n","k"," ","o","f"," ","A","m","e","r","i","c","a">>,
     ticker |-> <<"B","A","C">>],
    [key |-> <<"j","p","m","o","r","g","a","n">>,
     company |-> <<"J","P","M","o","r","g","a","n">>,
     ticker |-> <<"J","P","M">>]
    >>

\* the task types the router accepts as a prefix and the graph dispatches on
TaskTypes ==
    {<<"1">>, <<"2">>, <<"3">>, <<"4">>, <<"5">>}

\* the phrase get_general_news_node removes from the query
NewsPhrase ==
    <<"W","h","a","t"," ","i","s"," ","t","h","e"," ","l","a","t","e","s","t",
      " ","n","e","w","s"," ","o","n">>

(***************************************************************************)
(* AgentState: the dict threaded through one request.  keys is the set of  *)
(* keys the dict holds; a field whose key is absent holds a filler that is *)
(* never read (reading an absent key is a KeyError).  The context of a     *)
(* request pairs the dict with the log of the collaborator calls made.     *)
(* The graph hands the dict a node returns to the next node with every key *)
(* the node set, the keys "ticker" and "news" that the class AgentState    *)
(* does not declare included.                                              *)
(***************************************************************************)
\* run_agent: state = {"query": query, "source": source}
NewState(q, src) ==
    [keys      |-> {"query", "source"},
     query     |-> q,
     source    |-> src,
     task_type |-> <<>>,
     company   |-> <<>>,
     ticker    |-> <<>>,
     companies |-> <<>>,
     data      |-> "",
     news      |-> <<>>,
     response  |-> <<>>]

\* state[k] = v
Put(st, k, v) ==
    [st EXCEPT ![k] = v, !.keys = @ \cup {k}]

\* one call of a collaborator: the text-generation service (op "llm") or a
\* function of tools.py; site is the place of the call, arg what it is about
Call(op, site, arg, ok) ==
    [op |-> op, site |-> site, arg |-> arg, ok |-> ok]

Logged(c, op, site, arg, ok) ==
    [c EXCEPT !.calls = Append(@, Call(op, site, arg, ok))]

\* a reply of the text-generation service that is not asked for
NoReply ==
    [ok |-> FALSE, content |-> <<>>]

(***************************************************************************)
(* router_node, first part: the task type.                                 *)
(***************************************************************************)
\* a variant that takes every numeric prefix for an override
HasOverrideAnyNumber(q) ==
    PrefixMatches(q)

\* the prefix is an override: match and task_type in ["1", ..., "5"]
HasOverride(q) ==
    PrefixMatches(q) /\ PrefixGroup1(q) \in TaskTypes

\* state["task_type"] when the classifier raises
DefaultTaskType ==
    <<"4">>

\* the task type and the query after the prefix check and the classifier
RouterClassify(c, reply) ==
    LET q == c.st.query
    IN  IF HasOverride(q)
        THEN [c EXCEPT !.st = Put(Put(@, "task_type", PrefixGroup1(q)),
                                  "query", Strip(PrefixGroup2(q)))]
        ELSE Logged([c EXCEPT !.st =
                        Put(@, "task_type",
                            IF reply.ok THEN Strip(reply.content)
                            ELSE DefaultTaskType)],
                    "llm", "classify", q, reply.ok)

(***************************************************************************)
(* router_node, task types 1, 2, 3: one company.                           *)
(***************************************************************************)
\* the entries of common_companies whose key occurs in the lower-cased query
LookupHits(q) ==
    LET query_lower == Lower(q)
    IN  {i \in DOMAIN common_companies :
            WordSearch(query_lower, common_companies[i].key)}

\* the parse of the extraction reply: "Company: X, Ticker: Y" or "None".
\* An IndexError leaves what was assigned before it.
ParseExtract(st, extract) ==
    IF Contains(extract, <<"N","o","n","e">>) THEN st
    ELSE LET parts == Split(extract, <<",", " ">>)
             p0    == Split(parts[1], <<":", " ">>)
         IN  IF Len(p0) < 2 THEN st
             ELSE LET st1 == Put(st, "company", p0[2])
                  IN  IF Len(parts) > 1
                      THEN LET p1 == Split(parts[2], <<":", " ">>)
                           IN  IF Len(p1) < 2 THEN st1
                               ELSE Put(st1, "ticker", p1[2])
                      ELSE Put(st1, "ticker", Upper(st1.company))

ExtractOne(c, reply) ==
    LET hits == LookupHits(c.st.query)
    IN  IF hits # {}
        THEN LET e == common_companies[CHOOSE i \in hits : \A j \in hits : i <= j]
             IN  [c EXCEPT !.st = Put(Put(@, "company", e.company),
                                      "ticker", e.ticker)]
        ELSE Logged([c EXCEPT !.st =
                        IF reply.ok THEN ParseExtract(@, reply.content) ELSE @],
                    "llm", "extract_one", c.st.query, reply.ok)

(***************************************************************************)
(* router_node, task type 5: a list of companies.                          *)
(***************************************************************************)
\* the first loop: the table entries that occur in the query, in table order
RECURSIVE AddTableMatches(_, _, _)
AddTableMatches(acc, ql, i) ==
    IF i > Len(common_companies) THEN acc
    ELSE LET e == common_companies[i]
         IN  AddTableMatches(
                IF WordSearch(ql, e.key) /\ e.ticker \notin acc.seen
                THEN [list |-> Append(acc.list,
                                      [company |-> e.company, ticker |-> e.ticker]),
                      seen |-> acc.seen \cup {e.ticker}]
                ELSE acc,
                ql, i + 1)

\* the name the table gives a ticker, the ticker itself when it has none
NameOfTicker(pt) ==
    LET known == {i \in DOMAIN common_companies : common_companies[i].ticker = pt}
    IN  IF known = {} THEN pt
        ELSE common_companies[CHOOSE i \in known : \A j \in known : i <= j].company

\* the second loop without the test of seen_tickers
RECURSIVE AddTickersUnseen(_, _)
AddTickersUnseen(acc, pts) ==
    IF pts = <<>> THEN acc
    ELSE LET pt == Head(pts)
         IN  AddTickersUnseen(
                [list |-> Append(acc.list,
                                 [company |-> NameOfTicker(pt), ticker |-> pt]),
                 seen |-> acc.seen \cup {pt}],
                Tail(pts))

\* the second loop: the ticker-shaped tokens not seen yet
RECURSIVE AddTickers(_, _)
AddTickers(acc, pts) ==
    IF pts = <<>> THEN acc
    ELSE LET pt == Head(pts)
         IN  AddTickers(
                IF pt \notin acc.seen
                THEN [list |-> Append(acc.list,
                                      [company |-> NameOfTicker(pt), ticker |-> pt]),
                      seen |-> acc.seen \cup {pt}]
                ELSE acc,
                Tail(pts))

\* companies_list after both loops
LookupCompanies(q) ==
    AddTickers(AddTableMatches([list |-> <<>>, seen |-> {}], Lower(q), 1),
               FindTickers(q, 1)).list

\* the validation of the parsed reply: an entry is kept when it is a dict
\* with both keys and its upper-cased ticker was not seen; the entry itself
\* is appended
RECURSIVE ValidEntries(_, _)
ValidEntries(acc, entries) ==
    IF entries = <<>> THEN acc
    ELSE LET cd == Head(entries)
         IN  ValidEntries(
                IF cd.isdict /\ {"company", "ticker"} \subseteq cd.has
                   /\ Upper(cd.ticker) \notin acc.seen
                THEN [list |-> Append(acc.list,
                                      [company |-> cd.company, ticker |-> cd.ticker]),
                      seen |-> acc.seen \cup {Upper(cd.ticker)}]
                ELSE acc,
                Tail(entries))

NoCompaniesFound ==
    <<"No companies found in the query.">>

ErrorExtracting ==
    <<"Error extracting companies.">>

\* the reply of the extraction call is one of: the call raises ("raise"),
\* json.loads raises JSONDecodeError ("decode"), the parsed value makes the
\* loop raise ("type": not iterable, a ticker that is no string), or the
\* parsed value is a list of entries ("list")
ExtractMany(c, reply) ==
    LET found == LookupCompanies(c.st.query)
    IN  IF found # <<>>
        THEN [c EXCEPT !.st = Put(@, "companies", found)]
        ELSE Logged([c EXCEPT !.st =
                CASE reply.kind = "raise"  -> Put(@, "response", ErrorExtracting)
                  [] reply.kind = "type"   -> Put(@, "response", ErrorExtracting)
                  [] reply.kind = "decode" ->
                        Put(Put(@, "companies", <<>>), "response", NoCompaniesFound)
                  [] OTHER ->
                        LET valid == ValidEntries([list |-> <<>>, seen |-> {}],
                                                  reply.entries).list
                        IN  IF valid # <<>> THEN Put(@, "companies", valid)
                            ELSE Put(@, "response", NoCompaniesFound)],
             "llm", "extract_many", c.st.query, reply.kind # "raise")

(***************************************************************************)
(* Text helpers of the executors.                                          *)
(***************************************************************************)
\* the end of the first tag that starts at i: the least j > i with s[j] = ">"
\* and no line break between ('.' does not match "\n"), 0 when there is none
TagEnd(s, i) ==
    LET js == {j \in (i + 1)..Len(s) :
                  /\ s[j] = ">"
                  /\ \A k \in (i + 1)..(j - 1) : s[k] # "\n" /\ s[k] # ">"}
    IN  IF s[i] = "<" /\ js # {} THEN CHOOSE j \in js : TRUE ELSE 0

\* re.sub(r'<.*?>', '', s)
RECURSIVE StripTags(_)
StripTags(s) ==
    LET is == {i \in 1..Len(s) : TagEnd(s, i) # 0}
    IN  IF is = {} THEN s
        ELSE LET i == CHOOSE x \in is : \A y \in is : x <= y
             IN  SubSeq(s, 1, i - 1)
                 \o StripTags(SubSeq(s, TagEnd(s, i) + 1, Len(s)))

\* clean_news = [re.sub(r'<.*?>', '', item) for item in state["news"]]
CleanNews(news) ==
    [i \in 1..Len(news) |-> StripTags(news[i])]

\* f.read() of a file opened in text mode: "\r\n" and "\r" are read as "\n"
ReadText(t) ==
    [i \in 1..Len(t) |-> IF t[i] \in {"\r\n", "\r"} THEN "\n" ELSE t[i]]

\* f.write(t) then the content of the file (text mode, os.linesep = "\n")
WriteText(t) ==
    t

\* the file f"{dir}/{ticker}_{date}.md" is named by the pair <<ticker, date>>
FileName(ticker, date) ==
    <<ticker, date>>

Exists(files, f) ==
    f \in DOMAIN files

\* the file is created and left empty
WriteFileEmpty(files, f, t) ==
    [g \in DOMAIN files \cup {f} |-> IF g = f THEN <<>> ELSE files[g]]

WriteFile(files, f, t) ==
    [g \in DOMAIN files \cup {f} |-> IF g = f THEN WriteText(t) ELSE files[g]]

ErrorReport ==
    <<"Error generating report.">>

ErrorOverview ==
    <<"Error generating overview.">>

ErrorNews ==
    <<"Error fetching news.">>

ErrorHighlights ==
    <<"Error generating highlights.">>

NoCompaniesToHighlight ==
    <<"No companies to generate highlights for.">>

(***************************************************************************)
(* generate_report_node.  o gives the outcomes of the calls it makes:      *)
(* o.data of get_stock_data ("metrics", "empty" for {}, "raise"),          *)
(* o.news the list get_company_news returns, o.gen the reply of the        *)
(* text-generation call.  The two fetches are logged in submission order.  *)
(***************************************************************************)
\* the else branch with the generation call outside the try block
ReportMissUncaught(c, date, o) ==
    LET c0 == Logged(c, "get_stock_data", "report", c.st.ticker,
                     o.data # "raise")
        c1 == Logged(c0, "get_company_news", "report", c.st.company, TRUE)
    IN  IF "company" \notin c.st.keys
        THEN [c0 EXCEPT !.st = Put(@, "response", ErrorReport)]
        ELSE IF o.data = "raise"
        THEN [c1 EXCEPT !.st = Put(@, "response", ErrorReport)]
        ELSE LET c2 == Logged([c1 EXCEPT !.st = Put(Put(@, "data", o.data),
                                                     "news", o.news)],
                              "llm", "report", c.st.ticker, o.gen.ok)
             IN  IF ~o.gen.ok
                 THEN [c2 EXCEPT !.raised = TRUE]
                 ELSE [c2 EXCEPT
                         !.reports = WriteFile(@, FileName(c.st.ticker, date),
                                               o.gen.content),
                         !.st = Put(@, "response", o.gen.content),
                         !.generated = @ \cup {FileName(c.st.ticker, date)}]

\* the else branch of the file check, lines 222-233
ReportMiss(c, date, o) ==
    LET c0 == Logged(c, "get_stock_data", "report", c.st.ticker,
                     o.data # "raise")
        c1 == Logged(c0, "get_company_news", "report", c.st.company, TRUE)
    IN  IF "company" \notin c.st.keys
        THEN [c0 EXCEPT !.st = Put(@, "response", ErrorReport)]
        ELSE IF o.data = "raise"
        THEN [c1 EXCEPT !.st = Put(@, "response", ErrorReport)]
        ELSE LET c2 == Logged([c1 EXCEPT !.st = Put(Put(@, "data", o.data),
                                                     "news", o.news)],
                              "llm", "report", c.st.ticker, o.gen.ok)
             IN  IF ~o.gen.ok
                 THEN [c2 EXCEPT !.st = Put(@, "response", ErrorReport)]
                 ELSE [c2 EXCEPT
                         !.reports = WriteFile(@, FileName(c.st.ticker, date),
                                               o.gen.content),
                         !.st = Put(@, "response", o.gen.content),
                         !.generated = @ \cup {FileName(c.st.ticker, date)}]

generate_report_node(c, date, o) ==
    IF "ticker" \notin c.st.keys THEN [c EXCEPT !.raised = TRUE]
    ELSE IF c.st.ticker = <<>> THEN c
    ELSE IF Exists(c.reports, FileName(c.st.ticker, date))
    THEN [c EXCEPT !.st = Put(@, "response",
                              ReadText(c.reports[FileName(c.st.ticker, date)])),
                   !.served = @ \cup {FileName(c.st.ticker, date)}]
    ELSE ReportMiss(c, date, o)

(***************************************************************************)
(* generate_overview_node.  o.price is the outcome of the live price       *)
(* lookup ("raise", "none" or a price), o.data, o.news, o.gen those of     *)
(* its own fetches and generation call, o.report the outcomes of the       *)
(* generate_report_node call it ends with.                                 *)
(***************************************************************************)
LivePriceLabel ==
    "\n\n**Live Current Price:** "

\* the branch of an existing overview file, lines 248-258
OverviewHit(c, date, o) ==
    LET text == ReadText(c.overviews[FileName(c.st.ticker, date)])
        c1   == Logged(c, "live_price", "overview", c.st.ticker,
                       o.price # "raise")
    IN  [c1 EXCEPT !.st = Put(@, "response",
                              IF o.price \in {"raise", "none"} THEN text
                              ELSE text \o <<LivePriceLabel, o.price>>)]

\* the else branch, lines 260-283
OverviewMiss(c, date, o) ==
    LET c0 == Logged(c, "get_stock_data", "overview", c.st.ticker,
                     o.data # "raise")
        c1 == Logged(c0, "get_company_news", "overview", c.st.company, TRUE)
        fromReport == Exists(c.reports, FileName(c.st.ticker, date))
    IN  IF "company" \notin c.st.keys
        THEN [c0 EXCEPT !.st = Put(@, "response", ErrorOverview)]
        ELSE IF o.data = "raise" \/ (~fromReport /\ o.data = "empty")
        THEN [c1 EXCEPT !.st = Put(IF o.data = "raise" THEN @
                                   ELSE Put(Put(@, "data", o.data), "news", o.news),
                                   "response", ErrorOverview)]
        ELSE LET c2 == Logged([c1 EXCEPT !.st = Put(Put(@, "data", o.data),
                                                     "news", o.news)],
                              "llm", "overview", c.st.ticker, o.gen.ok)
             IN  IF ~o.gen.ok
                 THEN [c2 EXCEPT !.st = Put(@, "response", ErrorOverview)]
                 ELSE generate_report_node(
                        [c2 EXCEPT
                           !.st = Put(@, "response", o.gen.content),
                           !.overviews = WriteFile(@, FileName(c.st.ticker, date),
                                                   o.gen.content),
                           !.overview_text = o.gen.content],
                        date, o.report)

generate_overview_node(c, date, o) ==
    IF "ticker" \notin c.st.keys THEN [c EXCEPT !.raised = TRUE]
    ELSE IF c.st.ticker = <<>> THEN c
    ELSE IF Exists(c.overviews, FileName(c.st.ticker, date))
    THEN OverviewHit(c, date, o)
    ELSE OverviewMiss(c, date, o)

(***************************************************************************)
(* get_company_news_node and get_general_news_node.  o.news is the list    *)
(* the news search returns, o.gen the reply of the summary call.           *)
(***************************************************************************)
ParagraphBreak ==
    <<"\n\n">>

\* the response from the fetched news, summarised whatever the source
NewsResponseSummarised(c, site, arg, o) ==
    LET c1 == [c EXCEPT !.st = Put(@, "news", o.news)]
        c2 == Logged(c1, "llm", site, arg, o.gen.ok)
    IN  [c2 EXCEPT !.st = Put(@, "response",
                              IF o.gen.ok THEN o.gen.content ELSE ErrorNews)]

\* lines 294-304 and 316-326: the response from the fetched news
NewsResponse(c, site, arg, o) ==
    LET c1 == [c EXCEPT !.st = Put(@, "news", o.news)]
    IN  IF c.st.source = "cli"
        THEN LET c2 == Logged(c1, "llm", site, arg, o.gen.ok)
             IN  [c2 EXCEPT !.st = Put(@, "response",
                                       IF o.gen.ok THEN o.gen.content
                                       ELSE ErrorNews)]
        ELSE [c1 EXCEPT !.st = Put(@, "response",
                                   Join(CleanNews(o.news), ParagraphBreak))]

get_company_news_node(c, o) ==
    IF "company" \notin c.st.keys
    THEN [c EXCEPT !.st = Put(@, "response", ErrorNews)]
    ELSE NewsResponse(Logged(c, "get_company_news", "company_news",
                             c.st.company, TRUE),
                      "company_news", c.st.company, o)

\* topic = state["query"].replace("What is the latest news on", "").strip()
GeneralNewsTopic(q) ==
    Strip(RemoveAll(q, NewsPhrase))

get_general_news_node(c, o) ==
    LET topic == GeneralNewsTopic(c.st.query)
    IN  NewsResponse(Logged(c, "get_general_news", "general_news", topic, TRUE),
                     "general_news", topic, o)

(***************************************************************************)
(* generate_highlights_node.  o.fetch[i] is the outcome of the task of the *)
(* i-th company: raise, or the name, the snapshot and the news it found;   *)
(* o.order is the order in which the tasks complete; o.gen[i] the reply of *)
(* the summary call for the i-th company.                                  *)
(***************************************************************************)
NoRecentNews ==
    <<"No recent news available.">>

\* fetch_highlights(cd), lines 340-354
FetchHighlights(cd, f) ==
    [company |-> IF cd.company = cd.ticker /\ f.name # <<>> THEN f.name
                 ELSE cd.company,
     ticker  |-> cd.ticker,
     stock   |-> f.stock,
     news    |-> f.news]

\* the loop of lines 359-363 without its try block: the first task that
\* raised ends the loop
RECURSIVE CompletedUntilRaise(_, _, _)
CompletedUntilRaise(companies, fetch, order) ==
    IF order = <<>> THEN <<>>
    ELSE LET i == Head(order)
         IN  IF fetch[i].raise THEN <<>>
             ELSE <<FetchHighlights(companies[i], fetch[i]) @@ [index |-> i]>>
                  \o CompletedUntilRaise(companies, fetch, Tail(order))

\* the list highlights: the results of the tasks that did not raise, in the
\* order of completion
RECURSIVE Completed(_, _, _)
Completed(companies, fetch, order) ==
    IF order = <<>> THEN <<>>
    ELSE LET i == Head(order)
         IN  (IF fetch[i].raise THEN <<>>
              ELSE <<FetchHighlights(companies[i], fetch[i])
                       @@ [index |-> i]>>)
             \o Completed(companies, fetch, Tail(order))

\* one text block of the interactive response, lines 384-390
HighlightsPart(h, summary) ==
    <<"**">> \o h.company \o <<" (">> \o h.ticker \o <<")**\n">>
    \o <<"Current Price: ", IF h.stock = "empty" THEN "N/A" ELSE h.stock, "\n">>
    \o <<"Recent News:\n">> \o summary \o <<"\n">>

\* the loop of lines 367-391 over highlights from index k: the parts, or
\* "raise" when a summary call raises
RECURSIVE HighlightsParts(_, _, _, _)
HighlightsParts(c, hs, gen, k) ==
    IF k > Len(hs) THEN [c |-> c, parts |-> <<>>, raise |-> FALSE]
    ELSE LET h == hs[k]
         IN  IF h.news = <<>>
             THEN LET r == HighlightsParts(c, hs, gen, k + 1)
                  IN  [r EXCEPT !.parts = <<HighlightsPart(h, NoRecentNews)>> \o @]
             ELSE LET c1 == Logged(c, "llm", "highlights", h.ticker,
                                   gen[h.index].ok)
                  IN  IF ~gen[h.index].ok
                      THEN [c |-> c1, parts |-> <<>>, raise |-> TRUE]
                      ELSE LET r == HighlightsParts(c1, hs, gen, k + 1)
                           IN  [r EXCEPT !.parts =
                                  <<HighlightsPart(h, gen[h.index].content)>> \o @]

\* one record of the JSON response, lines 395-403
HighlightsRecord(h) ==
    <<"{">> \o h.company \o <<", ">> \o h.ticker \o <<", ", h.stock, ", ">>
    \o Join(h.news, <<"; ">>) \o <<"}">>

\* json.dumps(data), data not empty
HighlightsJsonArray(hs) ==
    <<"[">> \o Join([k \in 1..Len(hs) |-> HighlightsRecord(hs[k])], <<", ">>)
    \o <<"]">>

\* json.dumps(data if len(data) > 1 else data[0]), data not empty
HighlightsJson(hs) ==
    IF Len(hs) > 1
    THEN <<"[">> \o Join([k \in 1..Len(hs) |-> HighlightsRecord(hs[k])], <<", ">>)
         \o <<"]">>
    ELSE HighlightsRecord(hs[1])

RECURSIVE LogFetches(_, _, _, _)
LogFetches(c, companies, fetch, i) ==
    IF i > Len(companies) THEN c
    ELSE LogFetches(Logged(c, "fetch_highlights", "highlights",
                           companies[i].ticker, ~fetch[i].raise),
                    companies, fetch, i + 1)

generate_highlights_node(c, o) ==
    IF "companies" \notin c.st.keys \/ c.st.companies = <<>>
    THEN [c EXCEPT !.st = Put(@, "response", NoCompaniesToHighlight)]
    ELSE LET hs == Completed(c.st.companies, o.fetch, o.order)
             c1 == [LogFetches(c, c.st.companies, o.fetch, 1)
                       EXCEPT !.highlights = hs]
         IN  IF c.st.source = "cli"
             THEN LET r == HighlightsParts(c1, hs, o.gen, 1)
                  IN  [r.c EXCEPT !.st = Put(@, "response",
                            IF r.raise THEN ErrorHighlights
                            ELSE Join(r.parts, ParagraphBreak))]
             ELSE [c1 EXCEPT !.st = Put(@, "response",
                            IF hs = <<>> THEN ErrorHighlights
                            ELSE HighlightsJson(hs))]

(***************************************************************************)
(* Bounds and the inputs drawn from them.                                  *)
(***************************************************************************)
\* the most words in the body of a query
MaxWords == 2

\* the most entries in the JSON list of a multi-company extraction reply
MaxEntries == 2

\* the most requests in one run of the day specification
MaxRequests == 3

\* two company names of the table (one capitalised), a ticker of the table,
\* a ticker-shaped token the table does not know, the phrase of the news
\* executor, and a token on a new line
Words ==
    { <<"m","i","c","r","o","s","o","f","t">>,
      <<"N","v","i","d","i","a">>,
      <<"M","S","F","T">>,
      <<"X","Y">>,
      NewsPhrase,
      <<"\n","X","Y">> }

Prefixes ==
    { <<>>,
      <<"1",":"," ">>, <<"2",":"," ">>, <<"3",":">>, <<"4",":"," ">>,
      <<"5",":"," ">>, <<"6",":"," ">>, <<"1","2",":"," ">> }

\* the bodies of at most n words, joined by single spaces
RECURSIVE Bodies(_)
Bodies(n) ==
    IF n = 0 THEN {<<>>}
    ELSE Bodies(n - 1)
         \cup {(IF b = <<>> THEN <<>> ELSE b \o <<" ">>) \o w :
                  b \in Bodies(n - 1), w \in Words}

Queries ==
    {p \o b : p \in Prefixes, b \in Bodies(MaxWords)}

\* the source tag of a request; "none" stands for an absent source (None)
Sources ==
    {"cli", "web", "none"}

\* the texts the text-generation service writes
GenTexts ==
    {<<"Text A">>, <<"Text B", "\r\n", "second line">>}

GenReplies ==
    {[ok |-> FALSE, content |-> <<>>]}
    \cup {[ok |-> TRUE, content |-> t] : t \in GenTexts}

\* the replies of the classification call
ClassifierReplies ==
    {[ok |-> FALSE, content |-> <<>>]}
    \cup {[ok |-> TRUE, content |-> t] :
            t \in TaskTypes \cup {<<"6">>, <<" ","3","\n">>}}

\* the replies of the single-company extraction call
ExtractOneReplies ==
    {[ok |-> FALSE, content |-> <<>>]}
    \cup {[ok |-> TRUE, content |-> t] : t \in {
        <<"N","o","n","e">>,
        <<"C","o","m","p","a","n","y",":"," ","M","e","t","a",","," ",
          "T","i","c","k","e","r",":"," ","M","E","T","A">>,
        <<"C","o","m","p","a","n","y",":"," ","M","e","t","a">>,
        <<"M","e","t","a">>,
        <<"C","o","m","p","a","n","y",":"," ","M","e","t","a",","," ",
          "M","E","T","A">> }}

\* the entries a parsed multi-company reply may hold
JsonEntries ==
    { [isdict |-> TRUE, has |-> {"company", "ticker"},
       company |-> <<"T","e","s","l","a">>, ticker |-> <<"T","S","L","A">>],
      [isdict |-> TRUE, has |-> {"company", "ticker"},
       company |-> <<"T","e","s","l","a">>, ticker |-> <<"t","s","l","a">>],
      [isdict |-> TRUE, has |-> {"company"},
       company |-> <<"T","e","s","l","a">>, ticker |-> <<>>],
      [isdict |-> FALSE, has |-> {}, company |-> <<>>, ticker |-> <<>>] }

RECURSIVE SeqsUpTo(_, _)
SeqsUpTo(S, n) ==
    IF n = 0 THEN {<<>>}
    ELSE SeqsUpTo(S, n - 1)
         \cup {Append(q, x) : q \in SeqsUpTo(S, n - 1), x \in S}

ExtractManyReplies ==
    {[kind |-> k, entries |-> <<>>] : k \in {"raise", "decode", "type"}}
    \cup {[kind |-> "list", entries |-> es] : es \in SeqsUpTo(JsonEntries, MaxEntries)}

NoManyReply ==
    [kind |-> "raise", entries |-> <<>>]

\* the lists a news search returns
NewsLists ==
    { <<>>,
      << <<"<","b",">","u","p","<","/","b",">">>, <<"d","o","w","n">> >> }

DataOutcomes ==
    {"metrics", "empty", "raise"}

PriceOutcomes ==
    {"raise", "none", "101.5"}

ReportOutcomes ==
    [data : DataOutcomes, news : NewsLists, gen : GenReplies]

NoReportOutcome ==
    [data |-> "raise", news |-> <<>>, gen |-> NoReply]

\* the outcomes of the task of one company in generate_highlights_node
FetchOutcomes ==
    { [raise |-> TRUE,  name |-> <<>>, stock |-> "empty", news |-> <<>>],
      [raise |-> FALSE, name |-> <<>>, stock |-> "empty", news |-> <<>>],
      [raise |-> FALSE, name |-> <<"X","Y"," ","I","n","c">>, stock |-> "187.2",
       news |-> << <<"u","p">> >>] }

\* the orders in which the tasks 1..n complete
Orders(n) ==
    {o \in [1..n -> 1..n] : \A i, j \in 1..n : i # j => o[i] # o[j]}

(***************************************************************************)
(* The state of the program and of one request.                            *)
(*   pc            where the request is: "idle", "router", "route" (the    *)
(*                 conditional edge), "end", "done" (run_agent returned),  *)
(*                 "raised" (an exception left run_agent)                  *)
(*   state, calls  the AgentState and the log of collaborator calls        *)
(*   result        what run_agent returned                                 *)
(*   reports,      the files of reports/ and overviews/, by FileName       *)
(*   overviews                                                             *)
(*   today         the date of datetime.now()                              *)
(*   request       the query and source run_agent was called with          *)
(*   overview_text the text generate_overview_node generated and saved in  *)
(*                 this request (<<>> when it did not)                     *)
(*   served,       the report files served from disk / written after a     *)
(*   generated     generation in this request                              *)
(*   before        reports and overviews as they were when the request     *)
(*                 started                                                 *)
(*   requests      the number of requests started                          *)
(*   routed        the AgentState as router_node returned it               *)
(*   highlights    the list highlights of generate_highlights_node, each   *)
(*                 entry with the index of its company in the request      *)
(* and of one call of batch_analyze:                                       *)
(*   batch_pc      "idle", "collecting" (in the as_completed loop),        *)
(*                 "failed" (future.result() raised), "returned"           *)
(*   batch_queries the list queries                                        *)
(*   futures       per query, the task of run_agent: "running",            *)
(*                 "returned" with its value, or "raised"                  *)
(*   completed     the indices of the finished tasks, in completion order  *)
(*   results       the list results of the loop                            *)
(*   batch_result  the list batch_analyze returned                         *)
(* and of the thread pool of generate_report_node:                         *)
(*   pool          where the node is ("idle" outside the with block), the  *)
(*                 futures of the two fetches, each "pending", "done" with *)
(*                 its value or "raised", and the order they finished in   *)
(* and of the cache (src/cache.py) and the functions of src/tools.py:      *)
(*   now           time.time(), in seconds                                 *)
(*   cache         the files of data/: for <<ticker, kind>> the time of    *)
(*                 the last modification and the JSON text                 *)
(*   writes        the log of the writes to the cache                      *)
(*   ticks         the number of steps the clock has made                  *)
(*   cache_read    the last read of the cache, the number of writes made   *)
(*                 before it, and what it returned                         *)
(*   tool          the last call of a function of src/tools.py: its        *)
(*                 arguments, the steps it made and what it returned       *)
(***************************************************************************)
VARIABLES pc, state, calls, result, reports, overviews, today, request,
          overview_text, served, generated, before, requests, routed,
          highlights,
          batch_pc, batch_queries, futures, completed, results, batch_result,
          pool,
          now, cache, writes, ticks, cache_read, tool

\* the variables of batch_analyze (src/app.py) and of the thread pool of
\* generate_report_node
app_vars ==
    <<batch_pc, batch_queries, futures, completed, results, batch_result,
      pool>>

\* the variables of the cache and of the functions of src/tools.py
tools_vars ==
    <<now, cache, writes, ticks, cache_read, tool>>

vars ==
    <<pc, state, calls, result, reports, overviews, today, request,
      overview_text, served, generated, before, requests, routed,
      highlights, app_vars, tools_vars>>

NoFiles ==
    [f \in {} |-> <<>>]

Init ==
    /\ pc = "idle"
    /\ state = NewState(<<>>, "none")
    /\ calls = <<>>
    /\ result = <<>>
    /\ reports = NoFiles
    /\ overviews = NoFiles
    /\ today = 1
    /\ request = [query |-> <<>>, source |-> "none"]
    /\ overview_text = <<>>
    /\ served = {}
    /\ generated = {}
    /\ before = [reports |-> NoFiles, overviews |-> NoFiles]
    /\ requests = 0
    /\ routed = NewState(<<>>, "none")
    /\ highlights = <<>>
    /\ batch_pc = "idle"
    /\ batch_queries = <<>>
    /\ futures = <<>>
    /\ completed = <<>>
    /\ results = <<>>
    /\ batch_result = <<>>
    /\ pool = [pc |-> "idle"]
    /\ now = 0
    /\ cache = [f \in {} |-> <<>>]
    /\ writes = <<>>
    /\ ticks = 0
    /\ cache_read = [kind |-> "none"]
    /\ tool = [name |-> "none"]

\* the context the node operators work on
Ctx ==
    [st |-> state, calls |-> calls, reports |-> reports,
     overviews |-> overviews, raised |-> FALSE,
     overview_text |-> overview_text, served |-> served,
     generated |-> generated, highlights |-> highlights]

\* the node returned c (or raised): the next node is nextpc
Commit(ctx, nextpc) ==
  \E c \in {ctx} :
    /\ state' = c.st
    /\ calls' = c.calls
    /\ reports' = c.reports
    /\ overviews' = c.overviews
    /\ overview_text' = c.overview_text
    /\ served' = c.served
    /\ generated' = c.generated
    /\ highlights' = c.highlights
    /\ pc' = IF c.raised THEN "raised" ELSE nextpc
    /\ routed' = IF pc = "router" THEN c.st ELSE routed
    /\ UNCHANGED <<result, today, request, before, requests, app_vars,
                   tools_vars>>

\* run_agent(query, source) builds the state and invokes the graph
Start(qs, srcs) ==
    /\ pc = "idle"
    /\ \E q \in qs, src \in srcs :
          /\ state' = NewState(q, src)
          /\ request' = [query |-> q, source |-> src]
    /\ calls' = <<>>
    /\ result' = <<>>
    /\ overview_text' = <<>>
    /\ served' = {}
    /\ generated' = {}
    /\ before' = [reports |-> reports, overviews |-> overviews]
    /\ requests' = requests + 1
    /\ routed' = NewState(<<>>, "none")
    /\ highlights' = <<>>
    /\ pc' = "router"
    /\ UNCHANGED <<reports, overviews, today, app_vars, tools_vars>>

RunAgent ==
    Start(Queries, Sources)

\* router_node as a whole: cls, one and many are the replies of the calls it
\* may make
router_node(c, cls, one, many) ==
    LET c1 == RouterClassify(c, cls)
    IN  IF c1.st.task_type \in {<<"1">>, <<"2">>, <<"3">>}
        THEN ExtractOne(c1, one)
        ELSE IF c1.st.task_type = <<"5">>
        THEN ExtractMany(c1, many)
        ELSE c1

RouterNode ==
    /\ pc = "router"
    /\ \E cls \in (IF HasOverride(state.query) THEN {NoReply}
                   ELSE ClassifierReplies) :
          LET c1 == RouterClassify(Ctx, cls)
          IN  \E one \in (IF /\ c1.st.task_type \in {<<"1">>, <<"2">>, <<"3">>}
                             /\ LookupHits(c1.st.query) = {}
                          THEN ExtractOneReplies ELSE {NoReply}) :
              \E many \in (IF /\ c1.st.task_type = <<"5">>
                              /\ LookupCompanies(c1.st.query) = <<>>
                           THEN ExtractManyReplies ELSE {NoManyReply}) :
                 Commit(router_node(Ctx, cls, one, many), "route")

\* the conditional edge: a task type that is no key of the mapping raises
RouteUnknown ==
    /\ pc = "route"
    /\ state.task_type \notin TaskTypes
    /\ pc' = "raised"
    /\ UNCHANGED <<state, calls, result, reports, overviews, today, request,
                   overview_text, served, generated, before, requests, routed,
                   highlights, app_vars, tools_vars>>

GenerateReportNode ==
    /\ pc = "route"
    /\ state.task_type = <<"1">>
    /\ \E o \in ReportOutcomes :
          Commit(generate_report_node(Ctx, today, o), "end")

GenerateOverviewNode ==
    /\ pc = "route"
    /\ state.task_type = <<"2">>
    /\ LET hit == /\ "ticker" \in state.keys
                  /\ Exists(overviews, FileName(state.ticker, today))
       IN  \E o \in (IF hit THEN {NoReportOutcome} ELSE ReportOutcomes) :
           \E p \in (IF hit THEN PriceOutcomes ELSE {"none"}) :
           \E r \in (IF ~hit /\ o.gen.ok THEN ReportOutcomes
                     ELSE {NoReportOutcome}) :
              Commit(generate_overview_node(Ctx, today,
                        [data |-> o.data, news |-> o.news, gen |-> o.gen,
                         price |-> p, report |-> r]), "end")

GetCompanyNewsNode ==
    /\ pc = "route"
    /\ state.task_type = <<"3">>
    /\ \E n \in NewsLists, g \in GenReplies :
          Commit(get_company_news_node(Ctx, [news |-> n, gen |-> g]), "end")

GetGeneralNewsNode ==
    /\ pc = "route"
    /\ state.task_type = <<"4">>
    /\ \E n \in NewsLists, g \in GenReplies :
          Commit(get_general_news_node(Ctx, [news |-> n, gen |-> g]), "end")

GenerateHighlightsNode ==
    /\ pc = "route"
    /\ state.task_type = <<"5">>
    /\ LET n == IF "companies" \in state.keys THEN Len(state.companies) ELSE 0
       IN  \E f \in [1..n -> FetchOutcomes], ord \in Orders(n) :
           \E g \in (IF state.source = "cli" THEN [1..n -> GenReplies]
                     ELSE {[i \in 1..n |-> NoReply]}) :
              Commit(generate_highlights_node(Ctx,
                        [fetch |-> f, order |-> ord, gen |-> g]), "end")

\* run_agent returns result["response"]; an absent key is a KeyError
Return ==
    /\ pc = "end"
    /\ IF "response" \in state.keys
       THEN result' = state.response /\ pc' = "done"
       ELSE result' = result /\ pc' = "raised"
    /\ UNCHANGED <<state, calls, reports, overviews, today, request,
                   overview_text, served, generated, before, requests, routed,
                   highlights, app_vars, tools_vars>>

Next ==
    \/ RunAgent
    \/ RouterNode
    \/ RouteUnknown
    \/ GenerateReportNode
    \/ GenerateOverviewNode
    \/ GetCompanyNewsNode
    \/ GetGeneralNewsNode
    \/ GenerateHighlightsNode
    \/ Return

\* one request, any query, no report or overview file on disk
Spec ==
    Init /\ [][Next]_vars

(***************************************************************************)
(* A day of Report and Overview requests, one after the other, on the      *)
(* files the earlier requests left.                                        *)
(***************************************************************************)
DayQueries ==
    { <<"1",":"," ","m","i","c","r","o","s","o","f","t">>,
      <<"2",":"," ","m","i","c","r","o","s","o","f","t">> }

RunAgentDay ==
    Start(DayQueries, {"web"})

\* the caller has the result (or the exception) and may call again
NextRequest ==
    /\ pc \in {"done", "raised"}
    /\ requests < MaxRequests
    /\ pc' = "idle"
    /\ UNCHANGED <<state, calls, result, reports, overviews, today, request,
                   overview_text, served, generated, before, requests, routed,
                   highlights, app_vars, tools_vars>>

NextDay ==
    \/ RunAgentDay
    \/ RouterNode
    \/ GenerateReportNode
    \/ GenerateOverviewNode
    \/ Return
    \/ NextRequest

SpecDay ==
    Init /\ [][NextDay]_vars


(***************************************************************************)
(* Highlights requests for up to MaxCompanies companies.                   *)
(***************************************************************************)
\* the most companies a Highlights request names
MaxCompanies == 3

\* a name of the table, a capitalised one, and ticker-shaped tokens the
\* table does not know
HighlightsWords ==
    << <<"m","i","c","r","o","s","o","f","t">>,
       <<"N","v","i","d","i","a">>,
       <<"X","Y">>,
       <<"Z","Z">> >>

\* "5: " and the first n words
HighlightsQuery(n) ==
    <<"5", ":", " ">>
    \o Join([k \in 1..n |-> HighlightsWords[k]], <<" ">>)

HighlightsQueries ==
    {HighlightsQuery(n) : n \in 0..MaxCompanies}

RunAgentHighlights ==
    Start(HighlightsQueries, {"cli", "web"})

NextHighlights ==
    \/ RunAgentHighlights
    \/ RouterNode
    \/ GenerateHighlightsNode
    \/ Return

SpecHighlights ==
    Init /\ [][NextHighlights]_vars

(***************************************************************************)
(* Company News, General News and Highlights requests from every source.   *)
(***************************************************************************)
\* a name of the table and a token it does not know for Company News, a
\* topic for General News, two names and no name for Highlights
ModeQueries ==
    { <<"3",":"," ","m","i","c","r","o","s","o","f","t">>,
      <<"3",":"," ","X","Y">>,
      <<"4",":"," ">> \o NewsPhrase \o <<" ","X","Y">>,
      HighlightsQuery(2),
      HighlightsQuery(0) }

RunAgentModes ==
    Start(ModeQueries, Sources)

NextModes ==
    \/ RunAgentModes
    \/ RouterNode
    \/ GetCompanyNewsNode
    \/ GetGeneralNewsNode
    \/ GenerateHighlightsNode
    \/ Return

SpecModes ==
    Init /\ [][NextModes]_vars

(***************************************************************************)
(* batch_analyze (src/app.py): one run_agent task per query on a thread    *)
(* pool, the results collected in the order the tasks complete.            *)
(***************************************************************************)
\* the most queries in one batch
MaxBatch == 3

\* the variables of one request of run_agent, untouched by batch_analyze
agent_vars ==
    <<pc, state, calls, result, reports, overviews, today, request,
      overview_text, served, generated, before, requests, routed,
      highlights>>

BatchError ==
    <<"An error occurred during processing.">>

\* what one run_agent task ends with: an exception or a response
RunOutcomes ==
    {[status |-> "raised", value |-> <<>>]}
    \cup {[status |-> "returned", value |-> t] :
             t \in GenTexts \cup {ErrorNews}}

\* lines 42-44: the tasks are submitted in the order of queries
BatchAnalyze ==
    /\ batch_pc = "idle"
    /\ batch_queries = <<>>
    /\ \E qs \in SeqsUpTo(DayQueries, MaxBatch) :
          /\ qs # <<>>
          /\ batch_queries' = qs
          /\ futures' = [i \in 1..Len(qs) |->
                            [status |-> "running", value |-> <<>>]]
    /\ batch_pc' = "collecting"
    /\ UNCHANGED <<completed, results, batch_result, pool, agent_vars,
                   tools_vars>>

\* the task of the i-th query ends
WorkerFinish ==
    /\ batch_pc \in {"collecting", "failed"}
    /\ \E i \in DOMAIN futures, o \in RunOutcomes :
          /\ futures[i].status = "running"
          /\ futures' = [futures EXCEPT ![i] = o]
          /\ completed' = Append(completed, i)
    /\ UNCHANGED <<batch_pc, batch_queries, results, batch_result, pool, agent_vars,
                   tools_vars>>

\* lines 45-46: as_completed yields the next finished task; its result is
\* appended, or its exception leaves the loop
Collect ==
    /\ batch_pc = "collecting"
    /\ Len(results) < Len(completed)
    /\ LET f == futures[completed[Len(results) + 1]]
       IN  IF f.status = "raised"
           THEN batch_pc' = "failed" /\ results' = results
           ELSE batch_pc' = batch_pc /\ results' = Append(results, f.value)
    /\ UNCHANGED <<batch_queries, futures, completed, batch_result, pool, agent_vars,
                   tools_vars>>

\* lines 47-49: return results
ReturnResults ==
    /\ batch_pc = "collecting"
    /\ Len(results) = Len(futures)
    /\ batch_result' = results
    /\ batch_pc' = "returned"
    /\ UNCHANGED <<batch_queries, futures, completed, results, pool, agent_vars,
                   tools_vars>>

\* lines 50-54: the pool has waited for its tasks; one error per query
ReturnErrors ==
    /\ batch_pc = "failed"
    /\ \A i \in DOMAIN futures : futures[i].status # "running"
    /\ batch_result' = [i \in DOMAIN batch_queries |-> BatchError]
    /\ batch_pc' = "returned"
    /\ UNCHANGED <<batch_queries, futures, completed, results, pool, agent_vars,
                   tools_vars>>

NextBatch ==
    \/ BatchAnalyze
    \/ WorkerFinish
    \/ Collect
    \/ ReturnResults
    \/ ReturnErrors

SpecBatch ==
    Init /\ [][NextBatch]_vars

(***************************************************************************)
(* src/cache.py.  A payload is a dict, given as the list of its            *)
(* <<key, value>> pairs with a value a number (as written) or "None", or   *)
(* a list of strings.  The file holds the token list json.dump writes.     *)
(***************************************************************************)
(* The else branch of generate_report_node (src/agent.py, lines 222-233),  *)
(* step by step: the two fetches run on the threads of the pool while the  *)
(* node waits for their results.                                           *)
(***************************************************************************)
Pending ==
    [status |-> "pending"]

\* future.done(): result() and the exit of the with block wait for it
FinishedAlways(f) ==
    TRUE

Finished(f) ==
    f.status # "pending"

\* report_prompt.format(data=state["data"], news="\n".join(clean_news))
ReportPrompt(data, clean_news) ==
    [data |-> data, news |-> Join(clean_news, <<"\n">>)]

ReportQueries ==
    { <<"1",":"," ","m","i","c","r","o","s","o","f","t">>,
      <<"1",":"," ","N","v","i","d","i","a">> }

RunAgentReport ==
    Start(ReportQueries, {"cli", "web"})

\* what the steps of the node leave alone
report_frame ==
    <<result, overviews, today, request, overview_text, served, before,
      requests, routed, highlights, batch_pc, batch_queries, futures,
      completed, results, batch_result, tools_vars>>

\* lines 222-224: the report file is not there, the two fetches are submitted
ReportSubmit ==
    /\ pc = "route"
    /\ state.task_type = <<"1">>
    /\ pool.pc = "idle"
    /\ {"ticker", "company"} \subseteq state.keys
    /\ state.ticker # <<>>
    /\ ~Exists(reports, FileName(state.ticker, today))
    /\ pool' = [pc |-> "result_data", data |-> Pending, news |-> Pending,
                finished |-> <<>>]
    /\ UNCHANGED <<pc, state, calls, reports, generated, report_frame>>

\* the thread of get_stock_data returns or raises
WorkerData ==
    /\ pool.pc # "idle"
    /\ pool.data.status = "pending"
    /\ \E d \in DataOutcomes :
          /\ pool' = [pool EXCEPT
                        !.data = IF d = "raise" THEN [status |-> "raised"]
                                 ELSE [status |-> "done", value |-> d],
                        !.finished = Append(@, "data")]
          /\ calls' = Append(calls, Call("get_stock_data", "report",
                                         state.ticker, d # "raise"))
    /\ UNCHANGED <<pc, state, reports, generated, report_frame>>

\* the thread of get_company_news returns
WorkerNews ==
    /\ pool.pc # "idle"
    /\ pool.news.status = "pending"
    /\ \E n \in NewsLists :
          pool' = [pool EXCEPT !.news = [status |-> "done", value |-> n],
                               !.finished = Append(@, "news")]
    /\ calls' = Append(calls, Call("get_company_news", "report",
                                   state.company, TRUE))
    /\ UNCHANGED <<pc, state, reports, generated, report_frame>>

\* line 225: state["data"] = future_data.result()
ResultData ==
    /\ pool.pc = "result_data"
    /\ Finished(pool.data)
    /\ IF pool.data.status = "done"
       THEN /\ state' = Put(state, "data", pool.data.value)
            /\ pool' = [pool EXCEPT !.pc = "result_news"]
       ELSE /\ state' = state
            /\ pool' = [pool EXCEPT !.pc = "exit_raised"]
    /\ UNCHANGED <<pc, calls, reports, generated, report_frame>>

\* line 226: state["news"] = future_news.result()
ResultNews ==
    /\ pool.pc = "result_news"
    /\ Finished(pool.news)
    /\ state' = IF pool.news.status = "done"
                THEN Put(state, "news", pool.news.value) ELSE state
    /\ pool' = [pool EXCEPT !.pc = "exit"]
    /\ UNCHANGED <<pc, calls, reports, generated, report_frame>>

\* the end of the with block waits for both threads; an exception of
\* result() then reaches the except clause of lines 234-236
PoolExit ==
    /\ pool.pc \in {"exit", "exit_raised"}
    /\ Finished(pool.data) /\ Finished(pool.news)
    /\ IF pool.pc = "exit"
       THEN /\ pool' = [pool EXCEPT !.pc = "invoke"]
            /\ UNCHANGED <<pc, state>>
       ELSE /\ pool' = [pool EXCEPT !.pc = "done"]
            /\ state' = Put(state, "response", ErrorReport)
            /\ pc' = "end"
    /\ UNCHANGED <<calls, reports, generated, report_frame>>

\* lines 227-233: the generation call, the file and the response
ReportInvoke ==
    /\ pool.pc = "invoke"
    /\ \E g \in GenReplies :
          LET file == FileName(state.ticker, today)
          IN  /\ calls' = Append(calls,
                    Call("llm", "report",
                         ReportPrompt(state.data, CleanNews(state.news)), g.ok))
              /\ IF g.ok
                 THEN /\ reports' = WriteFile(reports, file, g.content)
                      /\ state' = Put(state, "response", g.content)
                      /\ generated' = generated \cup {file}
                 ELSE /\ state' = Put(state, "response", ErrorReport)
                      /\ UNCHANGED <<reports, generated>>
    /\ pool' = [pool EXCEPT !.pc = "done"]
    /\ pc' = "end"
    /\ UNCHANGED report_frame

NextReport ==
    \/ RunAgentReport
    \/ RouterNode
    \/ ReportSubmit
    \/ WorkerData
    \/ WorkerNews
    \/ ResultData
    \/ ResultNews
    \/ PoolExit
    \/ ReportInvoke
    \/ Return

SpecReport ==
    Init /\ [][NextReport]_vars

(***************************************************************************)
CACHE_EXPIRATION_SECONDS == 86400

CACHE_HIGHLIGHTS_SECONDS == 300

Token(t, v) ==
    [t |-> t, v |-> v]

\* the tokens of one value of a dict: None is written null
JsonScalar(v) ==
    IF v = "None" THEN Token("null", "null") ELSE Token("num", v)

\* json.dump(payload, f, indent=...): indent is "" for no indent
RECURSIVE JsonItems(_, _, _)
JsonItems(payload, k, indent) ==
    IF k > Len(payload.items) THEN <<>>
    ELSE (IF k > 1 THEN <<Token("punct", ",")>> ELSE <<>>)
         \o (IF indent = "" THEN <<>> ELSE <<Token("ws", indent)>>)
         \o (IF payload.type = "dict"
             THEN <<Token("str", payload.items[k][1]), Token("punct", ":"),
                    JsonScalar(payload.items[k][2])>>
             ELSE <<Token("str", payload.items[k])>>)
         \o JsonItems(payload, k + 1, indent)

JsonDump(payload, indent) ==
    <<Token("punct", IF payload.type = "dict" THEN "{" ELSE "[")>>
    \o JsonItems(payload, 1, indent)
    \o (IF indent = "" \/ payload.items = <<>> THEN <<>>
        ELSE <<Token("ws", "\n")>>)
    \o <<Token("punct", IF payload.type = "dict" THEN "}" ELSE "]")>>

\* json.load(f) of a text json.dump wrote
JsonLoad(text) ==
    LET toks == SelectSeq(text, LAMBDA x : x.t # "ws")
    IN  IF toks[1].v = "{"
        THEN [type  |-> "dict",
              items |-> [k \in 1..((Len(toks) - 1) \div 4) |->
                           <<toks[4 * k - 2].v,
                             IF toks[4 * k].t = "null" THEN "None"
                             ELSE toks[4 * k].v>>]]
        ELSE [type  |-> "list",
              items |-> [k \in 1..((Len(toks) - 1) \div 2) |-> toks[2 * k].v]]

\* the expiration get_cached_data, get_cached_news and
\* get_cached_highlights compare with
TTL(kind) ==
    IF kind = "highlights" THEN CACHE_HIGHLIGHTS_SECONDS
    ELSE CACHE_EXPIRATION_SECONDS

\* time.time() - mtime <= TTL
FreshInclusive(t, mtime, kind) ==
    t - mtime <= TTL(kind)

\* time.time() - mtime < TTL
Fresh(t, mtime, kind) ==
    t - mtime < TTL(kind)

\* the file f"data/{ticker}_{kind}.json"
CacheFile(ticker, kind) ==
    <<ticker, kind>>

Miss ==
    [hit |-> FALSE, payload |-> [type |-> "none", items |-> <<>>]]

\* get_cached_data / get_cached_news / get_cached_highlights at time t
GetCached(files, ticker, kind, t) ==
    LET file == CacheFile(ticker, kind)
    IN  IF file \in DOMAIN files /\ Fresh(t, files[file].mtime, kind)
        THEN [hit |-> TRUE, payload |-> JsonLoad(files[file].text)]
        ELSE Miss

\* the files are left as they were
SetCachedUnwritten(files, ticker, kind, payload, t) ==
    files

\* set_cached_data (indent=4) / set_cached_news / set_cached_highlights
SetCached(files, ticker, kind, payload, t) ==
    LET file == CacheFile(ticker, kind)
        text == JsonDump(payload, IF kind = "metrics" THEN "\n    " ELSE "")
    IN  [f \in DOMAIN files \cup {file} |->
            IF f = file THEN [mtime |-> t, text |-> text] ELSE files[f]]

(***************************************************************************)
(* Writes and reads of the cache under a clock that is set by hand.        *)
(***************************************************************************)
\* the most steps of the clock, the most writes
MaxTicks == 3

MaxWrites == 2

\* the steps of the clock: a second, and one second less than each TTL
TickSteps ==
    {1, CACHE_HIGHLIGHTS_SECONDS - 1, CACHE_EXPIRATION_SECONDS - 1}

CacheTickers ==
    {<<"M","S","F","T">>, <<"N","V","D","A">>}

\* the tickers written: both for metrics, one for news and highlights
WrittenTickers(kind) ==
    IF kind = "metrics" THEN CacheTickers ELSE {<<"M","S","F","T">>}

\* the payloads written: snapshots by kind, with a None and without
CachePayloads(kind) ==
    IF kind = "news"
    THEN {[type |-> "list", items |-> <<>>],
          [type |-> "list", items |-> <<"up", "down">>]}
    ELSE {[type |-> "dict", items |-> <<>>],
          [type |-> "dict",
           items |-> << <<"current_price", "187.2">>, <<"50d_ma", "None">> >>]}

\* the clock is followed from the first write to the read that ends the run
Tick ==
    /\ ticks < MaxTicks
    /\ writes # <<>>
    /\ cache_read.kind = "none"
    /\ \E d \in TickSteps : now' = now + d
    /\ ticks' = ticks + 1
    /\ UNCHANGED <<cache, writes, cache_read, tool, agent_vars, app_vars>>

SetCache(kind) ==
    /\ Len(writes) < MaxWrites
    /\ cache_read.kind = "none"
    /\ \E ticker \in WrittenTickers(kind), payload \in CachePayloads(kind) :
          /\ cache' = SetCached(cache, ticker, kind, payload, now)
          /\ writes' = Append(writes, [ticker |-> ticker, kind |-> kind,
                                       payload |-> payload, at |-> now])
    /\ UNCHANGED <<now, ticks, cache_read, tool, agent_vars, app_vars>>

\* one read, at any point of the run
GetCache(kind) ==
    /\ cache_read.kind = "none"
    /\ \E ticker \in CacheTickers :
          cache_read' = [kind |-> kind, ticker |-> ticker, at |-> now,
                         after |-> Len(writes),
                         returned |-> GetCached(cache, ticker, kind, now)]
    /\ UNCHANGED <<now, cache, writes, ticks, tool, agent_vars, app_vars>>

set_cached_data ==
    SetCache("metrics")

set_cached_news ==
    SetCache("news")

set_cached_highlights ==
    SetCache("highlights")

get_cached_data ==
    GetCache("metrics")

get_cached_news ==
    GetCache("news")

get_cached_highlights ==
    GetCache("highlights")

NextCache ==
    \/ Tick
    \/ set_cached_data
    \/ set_cached_news
    \/ set_cached_highlights
    \/ get_cached_data
    \/ get_cached_news
    \/ get_cached_highlights

SpecCache ==
    Init /\ [][NextCache]_vars

(***************************************************************************)
(* A write of the cache (src/cache.py) in its steps - open(file, 'w')      *)
(* empties the file, json.dump fills it - and a read that comes between    *)
(* them.  Nothing in the code keeps the two apart.                         *)
(***************************************************************************)
\* the last write, and whether json.dump has not yet written all its text
Writing ==
    /\ writes # <<>>
    /\ LET w == writes[Len(writes)]
       IN  cache[CacheFile(w.ticker, w.kind)].text
              # JsonDump(w.payload, IF w.kind = "metrics" THEN "\n    " ELSE "")

\* json.load(f) raises JSONDecodeError unless the text is a whole document
Decodes(text) ==
    /\ text # <<>>
    /\ text[Len(text)] \in {Token("punct", "}"), Token("punct", "]")}

\* open(file, 'w'): the file is there, empty, with the time of now
OpenForWrite ==
    /\ Len(writes) < MaxWrites
    /\ ~Writing
    /\ cache_read.kind = "none"
    /\ \E kind \in {"metrics", "news", "highlights"} :
       \E ticker \in WrittenTickers(kind), payload \in CachePayloads(kind) :
          /\ cache' = [f \in DOMAIN cache \cup {CacheFile(ticker, kind)} |->
                          IF f = CacheFile(ticker, kind)
                          THEN [mtime |-> now, text |-> <<>>] ELSE cache[f]]
          /\ writes' = Append(writes, [ticker |-> ticker, kind |-> kind,
                                       payload |-> payload, at |-> now])
    /\ UNCHANGED <<now, ticks, cache_read, tool, agent_vars, app_vars>>

\* json.dump(data, f): some more of the text reaches the file
DumpSome ==
    /\ Writing
    /\ cache_read.kind = "none"
    /\ LET w    == writes[Len(writes)]
           file == CacheFile(w.ticker, w.kind)
           full == JsonDump(w.payload,
                            IF w.kind = "metrics" THEN "\n    " ELSE "")
       IN  \E n \in (Len(cache[file].text) + 1)..Len(full) :
              cache' = [cache EXCEPT ![file].text = SubSeq(full, 1, n)]
    /\ UNCHANGED <<now, writes, ticks, cache_read, tool, agent_vars, app_vars>>

\* get_cached_data / get_cached_news / get_cached_highlights on the file as
\* it is at this moment
ReadDuringWrite ==
    /\ cache_read.kind = "none"
    /\ writes # <<>>
    /\ \E kind \in {"metrics", "news", "highlights"} :
       \E ticker \in WrittenTickers(kind) :
          LET file   == CacheFile(ticker, kind)
              loads  == file \in DOMAIN cache /\ Fresh(now, cache[file].mtime, kind)
              raised == loads /\ ~Decodes(cache[file].text)
          IN  cache_read' = [kind |-> kind, ticker |-> ticker, at |-> now,
                             after |-> Len(writes), raised |-> raised,
                             returned |-> IF raised THEN Miss
                                          ELSE GetCached(cache, ticker,
                                                         kind, now)]
    /\ UNCHANGED <<now, cache, writes, ticks, tool, agent_vars, app_vars>>

NextRace ==
    \/ OpenForWrite
    \/ DumpSome
    \/ ReadDuringWrite

SpecRace ==
    Init /\ [][NextRace]_vars

(***************************************************************************)
(* src/tools.py.  Each function is an operator from the cache files, the   *)
(* time and the outcomes o of the providers it asks to the record of what  *)
(* it did: the value returned, the files afterwards, and the steps made,   *)
(* in order.                                                               *)
(***************************************************************************)
EmptyDict ==
    [type |-> "dict", items |-> <<>>]

EmptyList ==
    [type |-> "list", items |-> <<>>]

\* d.get(key): the value of the key, "None" when the dict has no such key
DictGet(d, key) ==
    LET ks == {k \in DOMAIN d.items : d.items[k][1] = key}
    IN  IF ks = {} THEN "None" ELSE d.items[CHOOSE k \in ks : TRUE][2]

\* what was read is never used
NeverTruthy(read) ==
    FALSE

\* `if cached:` - a miss, an empty dict and an empty list are falsy
Truthy(read) ==
    read.hit /\ read.payload.items # <<>>

\* history["Close"].rolling(window).mean().iloc[-1] for a history of n > 0
\* points: NaN until the window is full
RollingMean(n, window) ==
    IF n >= window THEN "101.5" ELSE "NaN"

\* lines 42-69, for the outcome o of the provider and a history that is not
\* empty: the fields of info, the returns and the moving averages
StockMetrics(o) ==
    [type  |-> "dict",
     items |-> << <<"current_price", o.price>>,
                  <<"1y_return", IF o.history >= 252 THEN "0.12" ELSE "None">>,
                  <<"5y_return", IF o.history > 0 THEN "0.5" ELSE "None">>,
                  <<"50d_ma", RollingMean(o.history, 50)>>,
                  <<"200d_ma", RollingMean(o.history, 200)>> >>]

\* get_stock_data(ticker) writing the empty mapping of a failed fetch
get_stock_data_caching_failure(files, ticker, t, o) ==
    LET cached == GetCached(files, ticker, "metrics", t)
    IN  IF Truthy(cached)
        THEN [returned |-> cached.payload, files |-> files,
              steps |-> <<"cache">>]
        ELSE IF o.info = "raise" \/ o.history = 0
        THEN [returned |-> EmptyDict,
              files |-> SetCached(files, ticker, "metrics", EmptyDict, t),
              steps |-> <<"cache", "fetch">>]
        ELSE [returned |-> StockMetrics(o),
              files |-> SetCached(files, ticker, "metrics", StockMetrics(o), t),
              steps |-> <<"cache", "fetch", "write">>]

\* get_stock_data(ticker) at time t.  o.info is "raise" when stock.info or
\* stock.history raises; with an empty history .iloc[-1] raises IndexError.
get_stock_data(files, ticker, t, o) ==
    LET cached == GetCached(files, ticker, "metrics", t)
    IN  IF Truthy(cached)
        THEN [returned |-> cached.payload, files |-> files,
              steps |-> <<"cache">>]
        ELSE IF o.info = "raise" \/ o.history = 0
        THEN [returned |-> EmptyDict, files |-> files,
              steps |-> <<"cache", "fetch">>]
        ELSE [returned |-> StockMetrics(o),
              files |-> SetCached(files, ticker, "metrics", StockMetrics(o), t),
              steps |-> <<"cache", "fetch", "write">>]

\* the number a value of the provider denotes
Number(v) ==
    CASE v = "0" -> 0 [] v = "100" -> 100 [] v = "110" -> 110

\* float(chars) for a string of decimal digits
RECURSIVE Float(_)
Float(chars) ==
    IF chars = <<>> THEN 0
    ELSE 10 * Float(SubSeq(chars, 1, Len(chars) - 1))
         + (CHOOSE d \in 0..9 : ToString(d) = chars[Len(chars)])

\* quote.get(key, default)
QuoteGet(quote, key, default) ==
    LET ks == {k \in DOMAIN quote : quote[k][1] = key}
    IN  IF ks = {} THEN default ELSE quote[CHOOSE k \in ks : TRUE][2]

Snapshot(current, daily_change, ma50, ma200) ==
    [type  |-> "dict",
     items |-> << <<"current_price", current>>, <<"daily_change", daily_change>>,
                  <<"50d_ma", ma50>>, <<"200d_ma", ma200>> >>]

\* lines 113-132: the snapshot of yfinance.  The quotient of the floats is
\* taken to the whole percent.
YfSnapshot(yf) ==
    LET current    == yf.current
        prev_close == yf.prev_close
        truthy(v)  == v # "None" /\ Number(v) # 0
    IN  Snapshot(current,
                 IF truthy(prev_close) /\ truthy(current)
                 THEN ToString(((Number(current) - Number(prev_close)) * 100)
                               \div Number(prev_close))
                 ELSE "None",
                 IF yf.history >= 50 THEN "101.5" ELSE "None",
                 IF yf.history >= 200 THEN "99.25" ELSE "None")

\* nothing raised, whatever the history
YfSucceedsAnyHistory(yf) ==
    ~yf.raise

\* tier 1 returns its snapshot: nothing raised and the history has 200 points
YfSucceeds(yf) ==
    ~yf.raise /\ ~(yf.history < 200)

\* lines 136-161: the snapshot of Alpha Vantage, from the Global Quote and
\* the daily time series
AvSnapshot(av) ==
    LET quote == av.quote
    IN  Snapshot(IF quote # <<>>
                 THEN ToString(Float(QuoteGet(quote, "05. price", <<"0">>)))
                 ELSE "None",
                 IF quote # <<>>
                 THEN LET pct == QuoteGet(quote, "10. change percent",
                                          <<"0", "%">>)
                      IN  ToString(Float(SubSeq(pct, 1, Len(pct) - 1)))
                 ELSE "None",
                 IF av.series >= 50 THEN "101.5" ELSE "None",
                 IF av.series >= 200 THEN "99.25" ELSE "None")

\* get_stock_highlights(ticker) at time t, with the outcome o.yf of yfinance
\* and o.av of Alpha Vantage
get_stock_highlights(files, ticker, t, o) ==
    LET cached == GetCached(files, ticker, "highlights", t)
    IN  IF Truthy(cached)
        THEN [returned |-> cached.payload, files |-> files,
              steps |-> <<"cache">>]
        ELSE IF YfSucceeds(o.yf)
        THEN [returned |-> YfSnapshot(o.yf),
              files |-> SetCached(files, ticker, "highlights",
                                  YfSnapshot(o.yf), t),
              steps |-> <<"cache", "tier1", "write">>]
        ELSE IF o.av.raise
        THEN [returned |-> EmptyDict, files |-> files,
              steps |-> <<"cache", "tier1", "tier2">>]
        ELSE [returned |-> AvSnapshot(o.av),
              files |-> SetCached(files, ticker, "highlights",
                                  AvSnapshot(o.av), t),
              steps |-> <<"cache", "tier1", "tier2", "write">>]

\* get_news(query): the items of the search, [] when the request raises
get_news(brave) ==
    [type |-> "list",
     items |-> IF brave = "items" THEN <<"b1", "b2">> ELSE <<>>]

\* lines 175-184: the items of resp['feed']
FeedList(feed) ==
    [type |-> "list", items |-> IF feed = "items" THEN <<"a1", "a2">> ELSE <<>>]

\* one item for each of ynews
YnewsListUncut(n) ==
    [type |-> "list", items |-> [k \in 1..n |-> "y" \o ToString(k)]]

\* line 191: one item for each of ynews[:5]
YnewsList(n) ==
    [type  |-> "list",
     items |-> [k \in 1..(IF n < 5 THEN n ELSE 5) |-> "y" \o ToString(k)]]

\* get_recent_news(ticker, company) at time t; company is <<>> for None
get_recent_news(files, ticker, company, t, o) ==
    LET cached == GetCached(files, ticker, "news", t)
        tier1  == FeedList(o.feed)
        tier2  == YnewsList(o.ynews)
        tier3  == get_news(o.brave)
    IN  IF Truthy(cached)
        THEN [returned |-> cached.payload, files |-> files,
              steps |-> <<"cache">>]
        ELSE IF o.feed = "items"
        THEN [returned |-> tier1,
              files |-> SetCached(files, ticker, "news", tier1, t),
              steps |-> <<"cache", "tier1", "write">>]
        ELSE IF ~o.ynews_raise /\ tier2.items # <<>>
        THEN [returned |-> tier2,
              files |-> SetCached(files, ticker, "news", tier2, t),
              steps |-> <<"cache", "tier1", "tier2", "write">>]
        ELSE IF company # <<>>
        THEN [returned |-> tier3,
              files |-> SetCached(files, ticker, "news", tier3, t),
              steps |-> <<"cache", "tier1", "tier2", "tier3", "write">>]
        ELSE [returned |-> EmptyList, files |-> files,
              steps |-> <<"cache", "tier1", "tier2">>]

(***************************************************************************)
(* Calls of the functions of src/tools.py, one after the other, under the  *)
(* clock of the cache.                                                     *)
(***************************************************************************)
ToolTicker ==
    <<"M","S","F","T">>

\* the lengths of the price history the provider returns
HistoryLengths ==
    {0, 49, 50, 199, 200, 252}

StockDataOutcomes ==
    {[info |-> "raise", price |-> "None", history |-> 0]}
    \cup [info : {"ok"}, price : {"187.2"}, history : HistoryLengths]

\* yfinance: it raises, or answers with the price, the previous close and
\* a history of one year
YfRaise ==
    [raise |-> TRUE, current |-> "None", prev_close |-> "None", history |-> 0]

YfOutcomes ==
    {YfRaise, [YfRaise EXCEPT !.raise = FALSE, !.current = "110",
                              !.prev_close = "100", !.history = 199]}
    \cup [raise : {FALSE}, current : {"None", "110"},
          prev_close : {"None", "0", "100"}, history : {200}]

\* the Global Quote of Alpha Vantage: none, with everything, with a previous
\* close of 0, without a previous close
Quotes ==
    { <<>>,
      << <<"05. price", <<"1","1","0">> >>,
         <<"08. previous close", <<"1","0","0">> >>,
         <<"10. change percent", <<"1","0","%">> >> >>,
      << <<"05. price", <<"1","1","0">> >>,
         <<"08. previous close", <<"0">> >>,
         <<"10. change percent", <<"0","%">> >> >>,
      << <<"05. price", <<"1","1","0">> >> >> }

AvRaise ==
    [raise |-> TRUE, quote |-> <<>>, series |-> 0]

AvOutcomes ==
    {AvRaise} \cup [raise : {FALSE}, quote : Quotes, series : {0, 50, 200}]

\* Alpha Vantage is asked only after yfinance failed
HighlightsOutcomes ==
    {o \in [yf : YfOutcomes, av : AvOutcomes] :
        YfSucceeds(o.yf) => o.av = AvRaise}

\* the feed, the news of yfinance and the search; a tier is asked only
\* after the tiers before it gave nothing
NewsOutcomes ==
    {o \in [feed : {"raise", "empty", "items"}, ynews_raise : BOOLEAN,
            ynews : {0, 3, 7}, brave : {"raise", "empty", "items"}] :
        /\ o.feed = "items" => ~o.ynews_raise /\ o.ynews = 0
        /\ o.ynews_raise => o.ynews = 0
        /\ (o.feed = "items" \/ o.ynews > 0) => o.brave = "empty"}

\* the company argument: None, or a name
Companies ==
    {<<>>, <<"M","i","c","r","o","s","o","f","t">>}

\* the call is made, and the log of writes follows the files.  The file of
\* a function is written by that function only, so what a call finds is
\* what the last call of the same function left and the time since: a run
\* is a call, the passing of time, and the call after it.
ToolCall(name, company, o, r, kind) ==
    /\ tool.name = "none" \/ (tool.name = name /\ tool.first)
    /\ tool' = [name |-> name, first |-> tool.name = "none",
                ticker |-> ToolTicker, company |-> company,
                o |-> o, at |-> now, before |-> cache,
                returned |-> r.returned, steps |-> r.steps]
    /\ cache' = r.files
    /\ writes' = IF r.files = cache THEN writes
                 ELSE Append(writes, [ticker |-> ToolTicker, kind |-> kind,
                                      payload |-> r.returned, at |-> now])
    /\ UNCHANGED <<now, ticks, cache_read, agent_vars, app_vars>>

GetStockData ==
    \E o \in StockDataOutcomes :
        ToolCall("get_stock_data", <<>>, o,
                 get_stock_data(cache, ToolTicker, now, o), "metrics")

GetStockHighlights ==
    \E o \in HighlightsOutcomes :
        ToolCall("get_stock_highlights", <<>>, o,
                 get_stock_highlights(cache, ToolTicker, now, o), "highlights")

GetRecentNews ==
    \E o \in NewsOutcomes, company \in Companies :
        ToolCall("get_recent_news", company, o,
                 get_recent_news(cache, ToolTicker, company, now, o), "news")

\* the clock between the two calls
ToolTick ==
    /\ ticks < MaxTicks
    /\ tool.name # "none" /\ tool.first
    /\ writes # <<>>
    /\ \E d \in TickSteps : now' = now + d
    /\ ticks' = ticks + 1
    /\ UNCHANGED <<cache, writes, cache_read, tool, agent_vars, app_vars>>

NextTools ==
    \/ ToolTick
    \/ GetStockData
    \/ GetStockHighlights
    \/ GetRecentNews

SpecTools ==
    Init /\ [][NextTools]_vars

(***************************************************************************)
(* Two callers of get_stock_data for one ticker at the same time, each in  *)
(* its steps: the read of the cache, the fetch, open(file, 'w'), and the   *)
(* write of the buffered text when the file is closed.  Here the text of   *)
(* the file is kept character by character, each character as the token it *)
(* belongs to and its place in the token.                                  *)
(***************************************************************************)
\* the number of characters of a token; a string has its two quotes
Width(tok) ==
    Len(tok.v) + (IF tok.t = "str" THEN 2 ELSE 0)

RECURSIVE Bytes(_)
Bytes(text) ==
    IF text = <<>> THEN <<>>
    ELSE [k \in 1..Width(Head(text)) |-> <<Head(text), k>>] \o Bytes(Tail(text))

\* f.write(bytes) at offset 0 of a file that holds old: what lies beyond
\* the written characters stays
Overwrite(old, bytes) ==
    [k \in 1..(IF Len(old) > Len(bytes) THEN Len(old) ELSE Len(bytes)) |->
        IF k <= Len(bytes) THEN bytes[k] ELSE old[k]]

\* what json.dump(metrics, f, indent=4) writes
MetricsBytes(payload) ==
    Bytes(JsonDump(payload, "\n    "))

\* the metrics a fetch may return: of a history of 49, 200 and 252 days
RacePayloads ==
    {StockMetrics([info |-> "ok", price |-> "187.2", history |-> h]) :
        h \in {49, 200, 252}}

Callers ==
    {1, 2}

RaceFile ==
    CacheFile(ToolTicker, "metrics")

\* two requests arrive while no file is there
RaceStart ==
    /\ tool.name = "none"
    /\ tool' = [name |-> "race", ticker |-> ToolTicker,
                callers |-> [i \in Callers |->
                               [pc |-> "read", payload |-> EmptyDict,
                                returned |-> EmptyDict]]]
    /\ UNCHANGED <<now, cache, writes, ticks, cache_read, agent_vars, app_vars>>

\* line 30: cached = get_cached_data(ticker); json.load raises unless the
\* file holds a whole document
CallerRead(i) ==
    /\ tool.name = "race"
    /\ tool.callers[i].pc = "read"
    /\ LET hits == {q \in RacePayloads :
                       /\ RaceFile \in DOMAIN cache
                       /\ cache[RaceFile].text = MetricsBytes(q)}
       IN  tool' = [tool EXCEPT !.callers[i] =
                      IF RaceFile \notin DOMAIN cache THEN [@ EXCEPT !.pc = "fetch"]
                      ELSE IF hits = {} THEN [@ EXCEPT !.pc = "raised"]
                      ELSE [@ EXCEPT !.pc = "done",
                                     !.returned = CHOOSE q \in hits : TRUE]]
    /\ UNCHANGED <<now, cache, writes, ticks, cache_read, agent_vars, app_vars>>

\* lines 36-69: the fetch returns metrics, or raises and {} is returned
CallerFetch(i) ==
    /\ tool.name = "race"
    /\ tool.callers[i].pc = "fetch"
    /\ \/ \E q \in RacePayloads :
             tool' = [tool EXCEPT !.callers[i] =
                        [@ EXCEPT !.pc = "open", !.payload = q]]
       \/ tool' = [tool EXCEPT !.callers[i] = [@ EXCEPT !.pc = "done"]]
    /\ UNCHANGED <<now, cache, writes, ticks, cache_read, agent_vars, app_vars>>

\* set_cached_data, line 20: open(file, 'w') empties the file
CallerOpen(i) ==
    /\ tool.name = "race"
    /\ tool.callers[i].pc = "open"
    /\ cache' = [f \in DOMAIN cache \cup {RaceFile} |->
                    IF f = RaceFile THEN [mtime |-> now, text |-> <<>>]
                    ELSE cache[f]]
    /\ tool' = [tool EXCEPT !.callers[i].pc = "write"]
    /\ UNCHANGED <<now, writes, ticks, cache_read, agent_vars, app_vars>>

\* set_cached_data, line 21, and line 73: the text reaches the file when it
\* is closed, and the caller returns the metrics it fetched
CallerWrite(i) ==
    /\ tool.name = "race"
    /\ tool.callers[i].pc = "write"
    /\ cache' = [cache EXCEPT ![RaceFile].text =
                    Overwrite(@, MetricsBytes(tool.callers[i].payload))]
    /\ writes' = Append(writes, [ticker |-> ToolTicker, kind |-> "metrics",
                                 payload |-> tool.callers[i].payload,
                                 at |-> now])
    /\ tool' = [tool EXCEPT !.callers[i] =
                  [@ EXCEPT !.pc = "done",
                            !.returned = tool.callers[i].payload]]
    /\ UNCHANGED <<now, ticks, cache_read, agent_vars, app_vars>>

NextFetchRace ==
    \/ RaceStart
    \/ \E i \in Callers : CallerRead(i)
    \/ \E i \in Callers : CallerFetch(i)
    \/ \E i \in Callers : CallerOpen(i)
    \/ \E i \in Callers : CallerWrite(i)

SpecFetchRace ==
    Init /\ [][NextFetchRace]_vars

(***************************************************************************)
(* Two requests for one ticker on one day that run at the same time        *)
(* (analyze runs in the thread pool of the server, batch_analyze in its    *)
(* own pool): each is a Report or an Overview request past router_node,    *)
(* and each file access of generate_report_node and                        *)
(* generate_overview_node is a step.  The texts of GenTexts start with     *)
(* chunks of equal length, so Overwrite on chunks is the write at offset 0.*)
(***************************************************************************)
Threads ==
    {1, 2}

ThreadKinds ==
    {"report", "overview"}

DayFile ==
    FileName(<<"M","S","F","T">>, today)

thread_frame ==
    <<pc, state, calls, result, today, request, overview_text, served,
      generated, before, requests, routed, highlights, batch_pc,
      batch_queries, futures, completed, results, batch_result, now, cache,
      ticks, cache_read, tool>>

\* thread i goes to pc (and, when given, has a text or a response)
Goto(i, to, text, response) ==
    pool' = [pool EXCEPT !.threads[i] =
               [@ EXCEPT !.pc = to,
                         !.text = IF text = <<>> THEN @ ELSE text,
                         !.response = IF response = <<>> THEN @ ELSE response]]

At(i, at) ==
    pool.pc = "threads" /\ pool.threads[i].pc = at

\* both requests are past router_node with ticker MSFT
ThreadsStart ==
    /\ pool.pc = "idle"
    /\ \E kinds \in [Threads -> ThreadKinds] :
          pool' = [pc |-> "threads",
                   threads |-> [i \in Threads |->
                      [kind |-> kinds[i],
                       pc |-> IF kinds[i] = "report" THEN "report_check"
                              ELSE "overview_check",
                       text |-> <<>>, response |-> <<>>]]]
    /\ UNCHANGED <<reports, overviews, writes, thread_frame>>

\* generate_overview_node, line 248: os.path.exists(overview_file)
OverviewCheck(i) ==
    /\ At(i, "overview_check")
    /\ Goto(i, IF Exists(overviews, DayFile) THEN "overview_read"
               ELSE "overview_generate", <<>>, <<>>)
    /\ UNCHANGED <<reports, overviews, writes, thread_frame>>

\* lines 249-258: the file is read and the live price appended
OverviewRead(i) ==
    /\ At(i, "overview_read")
    /\ \E p \in PriceOutcomes :
          LET text == ReadText(overviews[DayFile])
          IN  pool' = [pool EXCEPT !.threads[i] =
                         [@ EXCEPT !.pc = "done",
                                   !.response =
                                      IF p \in {"raise", "none"} THEN text
                                      ELSE text \o <<LivePriceLabel, p>>]]
    /\ UNCHANGED <<reports, overviews, writes, thread_frame>>

\* lines 260-277: the fetches and the generation call give a text, or one
\* of them raises and the response is the error string
OverviewGenerate(i) ==
    /\ At(i, "overview_generate")
    /\ \/ \E g \in GenTexts : Goto(i, "overview_open", g, g)
       \/ Goto(i, "done", <<>>, ErrorOverview)
    /\ UNCHANGED <<reports, overviews, writes, thread_frame>>

\* line 280: open(overview_file, "w") empties the file
OverviewOpen(i) ==
    /\ At(i, "overview_open")
    /\ overviews' = WriteFileEmpty(overviews, DayFile, <<>>)
    /\ Goto(i, "overview_write", <<>>, <<>>)
    /\ UNCHANGED <<reports, writes, thread_frame>>

\* lines 281-283: the text reaches the file, then generate_report_node
OverviewWrite(i) ==
    /\ At(i, "overview_write")
    /\ overviews' = [overviews EXCEPT ![DayFile] =
                        Overwrite(@, WriteText(pool.threads[i].text))]
    /\ Goto(i, "report_check", <<>>, <<>>)
    /\ UNCHANGED <<reports, writes, thread_frame>>

\* generate_report_node, line 217: os.path.exists(filename)
ReportCheck(i) ==
    /\ At(i, "report_check")
    /\ Goto(i, IF Exists(reports, DayFile) THEN "report_read"
               ELSE "report_generate", <<>>, <<>>)
    /\ UNCHANGED <<reports, overviews, writes, thread_frame>>

\* lines 218-219: state["response"] = f.read()
ReportRead(i) ==
    /\ At(i, "report_read")
    /\ pool' = [pool EXCEPT !.threads[i] =
                   [@ EXCEPT !.pc = "done",
                             !.response = ReadText(reports[DayFile])]]
    /\ UNCHANGED <<reports, overviews, writes, thread_frame>>

\* lines 222-228: the fetches and the generation call give a text, or one
\* of them raises and the response is the error string
ReportGenerate(i) ==
    /\ At(i, "report_generate")
    /\ \/ \E g \in GenTexts : Goto(i, "report_open", g, <<>>)
       \/ Goto(i, "done", <<>>, ErrorReport)
    /\ UNCHANGED <<reports, overviews, writes, thread_frame>>

\* line 230: open(filename, "w") empties the file
ReportOpen(i) ==
    /\ At(i, "report_open")
    /\ reports' = WriteFileEmpty(reports, DayFile, <<>>)
    /\ Goto(i, "report_write", <<>>, <<>>)
    /\ UNCHANGED <<overviews, writes, thread_frame>>

\* lines 231-232: the text reaches the file and is the response
ReportWrite(i) ==
    /\ At(i, "report_write")
    /\ reports' = [reports EXCEPT ![DayFile] =
                      Overwrite(@, WriteText(pool.threads[i].text))]
    /\ writes' = Append(writes, [thread |-> i, text |-> pool.threads[i].text,
                                 file |-> reports'[DayFile]])
    /\ Goto(i, "done", <<>>, pool.threads[i].text)
    /\ UNCHANGED <<overviews, thread_frame>>

NextThreads ==
    \/ ThreadsStart
    \/ \E i \in Threads : OverviewCheck(i)
    \/ \E i \in Threads : OverviewRead(i)
    \/ \E i \in Threads : OverviewGenerate(i)
    \/ \E i \in Threads : OverviewOpen(i)
    \/ \E i \in Threads : OverviewWrite(i)
    \/ \E i \in Threads : ReportCheck(i)
    \/ \E i \in Threads : ReportRead(i)
    \/ \E i \in Threads : ReportGenerate(i)
    \/ \E i \in Threads : ReportOpen(i)
    \/ \E i \in Threads : ReportWrite(i)

SpecThreads ==
    Init /\ [][NextThreads]_vars

(***************************************************************************)
(* Properties of run_agent, router_node and the executors.                 *)
(***************************************************************************)
\* C1: for every query, source and outcome of the collaborator calls,
\* run_agent ends by returning a response; no exception leaves it.
C1_NeverRaises ==
    /\ pc # "raised"
    /\ pc = "done" => "response" \in state.keys /\ result = state.response

\* C2: for a query that starts with one digit 1..5 and a colon, router_node
\* sets the task type to that digit, makes no classifier call, and replaces
\* the query by the remainder after the prefix, which is what entity
\* extraction and the executors then work on.
C2_PrefixOverride ==
    LET q    == request.query
        rest == Strip(SubSeq(q, 3, Len(q)))
    IN  (/\ pc \notin {"idle", "router"}
         /\ Len(q) >= 2
         /\ <<q[1]>> \in TaskTypes
         /\ q[2] = ":")
        => /\ routed.task_type = <<q[1]>>
           /\ \A i \in DOMAIN calls :
                 ~(calls[i].op = "llm" /\ calls[i].site = "classify")
           /\ routed.query = rest
           /\ state.query = rest
           /\ \A i \in DOMAIN calls :
                 calls[i].site \in {"extract_one", "extract_many"}
                    => calls[i].arg = rest

\* C3: with no valid prefix and a classifier call that fails, the task type
\* is 4, no entity extraction call is made, and the topic of the general
\* news search is the query without the leading phrase (the whole query
\* when it does not start with the phrase, as for "MSFT").
C3_LeadingPhraseRemoved ==
    LET q == request.query
    IN  (/\ pc \in {"end", "done"}
         /\ ~HasOverride(q)
         /\ \E i \in DOMAIN calls :
               calls[i].op = "llm" /\ calls[i].site = "classify" /\ ~calls[i].ok)
        => /\ routed.task_type = <<"4">>
           /\ \A i \in DOMAIN calls :
                 calls[i].site \notin {"extract_one", "extract_many"}
           /\ \E i \in DOMAIN calls :
                 /\ calls[i].op = "get_general_news"
                 /\ calls[i].arg =
                       Strip(IF StartsAt(q, NewsPhrase, 1)
                             THEN SubSeq(q, Len(NewsPhrase) + 1, Len(q))
                             ELSE q)

\* C4: after router_node the task type is one of 1..5, for every query and
\* every reply of the classifier, and the dispatch selects an executor.
C4_TaskTypeClosed ==
    pc \notin {"idle", "router"} => routed.task_type \in TaskTypes

\* C5: for task types 1, 2, 3, when the extraction resolves no entity, the
\* request ends with a message of its own that says so (not an executor's
\* error string), fetches no market data and no news, and does not raise.
C5_NoEntityShortCircuit ==
    (/\ pc \in {"end", "done", "raised"}
     /\ routed.task_type \in {<<"1">>, <<"2">>, <<"3">>}
     /\ "company" \notin routed.keys
     /\ "ticker" \notin routed.keys)
    => /\ pc # "raised"
       /\ \A i \in DOMAIN calls : calls[i].op = "llm"
       /\ "response" \in state.keys
       /\ state.response \notin {ErrorReport, ErrorOverview, ErrorNews}

\* C6: for task type 5, when the extraction ends with no company and
\* router_node set the message that no companies were found, that message
\* is the response returned, and generate_highlights_node fetches nothing
\* and makes no text-generation call.
C6_RouterMessageReturned ==
    (/\ pc = "done"
     /\ routed.task_type = <<"5">>
     /\ "companies" \notin routed.keys \/ routed.companies = <<>>
     /\ "response" \in routed.keys
     /\ routed.response = NoCompaniesFound)
    => /\ result = routed.response
       /\ \A i \in DOMAIN calls : calls[i].site # "highlights"

\* C7: for task type 5 on the lookup path, when router_node has returned,
\* the company list holds the
\* entries of the table whose name occurs in the query, in the order of the
\* table, then the ticker-shaped tokens that are not a ticker of those
\* entries, each once and in the order of their first occurrence, under the
\* name the table gives them; no ticker occurs twice; and a second
\* extraction from the same query gives the same list.
C7_LookupList ==
    (/\ pc = "route"
     /\ routed.task_type = <<"5">>
     /\ "companies" \in routed.keys
     /\ \A i \in DOMAIN calls : calls[i].site # "extract_many")
    => LET q     == routed.query
           L     == routed.companies
           ql    == Lower(q)
           T     == {i \in DOMAIN common_companies :
                        WordSearch(ql, common_companies[i].key)}
           n     == Cardinality(T)
           toks  == FindTickers(q, 1)
           fresh == {toks[k] : k \in DOMAIN toks}
                    \ {common_companies[i].ticker : i \in T}
           first(t) == CHOOSE k \in DOMAIN toks :
                          toks[k] = t /\ \A j \in 1..(k - 1) : toks[j] # t
       IN  /\ Len(L) = n + Cardinality(fresh)
           /\ \A k \in 1..n : \E i \in T :
                 /\ Cardinality({j \in T : j < i}) = k - 1
                 /\ L[k] = [company |-> common_companies[i].company,
                            ticker  |-> common_companies[i].ticker]
           /\ \A k \in (n + 1)..Len(L) :
                 /\ L[k].ticker \in fresh
                 /\ \/ \E i \in DOMAIN common_companies :
                          /\ common_companies[i].ticker = L[k].ticker
                          /\ common_companies[i].company = L[k].company
                    \/ /\ \A i \in DOMAIN common_companies :
                             common_companies[i].ticker # L[k].ticker
                       /\ L[k].company = L[k].ticker
           /\ \A a, b \in (n + 1)..Len(L) :
                 a < b => first(L[a].ticker) < first(L[b].ticker)
           /\ \A a, b \in DOMAIN L :
                 a # b => Upper(L[a].ticker) # Upper(L[b].ticker)
           /\ LookupCompanies(q) = L

\* the query names two companies against the order of the table
C7_TableOrderReached ==
    /\ pc = "route"
    /\ routed.task_type = <<"5">>
    /\ request.query = <<"5", ":", " ">>
                       \o <<"m","i","c","r","o","s","o","f","t">>
                       \o <<" ">> \o <<"N","v","i","d","i","a">>
    /\ \A i \in DOMAIN calls : calls[i].site # "extract_many"
    /\ "companies" \in routed.keys
    /\ Len(routed.companies) = 2
    /\ routed.companies[1].ticker = <<"N","V","D","A">>
    /\ routed.companies[2].ticker = <<"M","S","F","T">>

\* C8: when a text-generation call made in the code of an executor fails,
\* the failure is caught there, nothing is raised to the caller, and the
\* response is the error string of that executor: "Error generating
\* report.", "Error generating overview.", "Error generating highlights." or
\* "Error fetching news.".
C8_GenerationFailureCaught ==
    \A i \in DOMAIN calls :
        (/\ calls[i].op = "llm"
         /\ ~calls[i].ok
         /\ calls[i].site \in {"report", "overview", "company_news",
                               "general_news", "highlights"})
        => LET error == CASE calls[i].site = "report"   -> ErrorReport
                          [] calls[i].site = "overview" -> ErrorOverview
                          [] calls[i].site = "highlights" -> ErrorHighlights
                          [] OTHER -> ErrorNews
           IN  /\ pc # "raised"
               /\ "response" \in state.keys
               /\ state.response = error
               /\ pc = "done" => result = error

\* a Report request whose generation call failed has returned
C8_ReportFailureReturned ==
    /\ pc = "done"
    /\ state.task_type = <<"1">>
    /\ \E i \in DOMAIN calls :
          calls[i].op = "llm" /\ calls[i].site = "report" /\ ~calls[i].ok
    /\ result = ErrorReport

\* C9: when the report file of (ticker, today) exists, generate_report_node
\* returns the content of the file as it is, fetches no metrics and no news,
\* makes no text-generation call and leaves the file as it was; so the
\* Report requests of one day after the first that succeeded return one
\* text and nothing is generated again.
C9_ReportServedVerbatim ==
    (/\ pc \in {"end", "done"}
     /\ state.task_type = <<"1">>
     /\ "ticker" \in state.keys
     /\ Exists(before.reports, FileName(state.ticker, today)))
    => /\ state.response = before.reports[FileName(state.ticker, today)]
       /\ calls = <<>>
       /\ reports = before.reports
       /\ generated = {}

\* C10: on an Overview request that found no overview file, the response
\* returned is the overview text that was generated and written to the
\* overview file; the call of generate_report_node that follows does not
\* change it.
C10_OverviewResponseKept ==
    (/\ pc = "done"
     /\ state.task_type = <<"2">>
     /\ overview_text # <<>>)
    => /\ result = overview_text
       /\ overviews[FileName(state.ticker, today)] = overview_text

\* C11: when the generate_report_node call that ends an Overview request
\* fails (its metrics fetch or its generation call raises), the request
\* still returns the overview text it generated, and the overview file it
\* wrote stays as written.
C11_OverviewSurvivesReportFailure ==
    (/\ pc = "done"
     /\ state.task_type = <<"2">>
     /\ overview_text # <<>>
     /\ \E i \in DOMAIN calls :
           /\ calls[i].site = "report"
           /\ calls[i].op \in {"get_stock_data", "llm"}
           /\ ~calls[i].ok)
    => /\ result = overview_text
       /\ Exists(overviews, FileName(state.ticker, today))
       /\ overviews[FileName(state.ticker, today)] = overview_text

\* C12: for n resolved companies of which the fetch task raises for k, the
\* list highlights holds the other n - k companies, each once, whatever the
\* order of completion; no exception leaves generate_highlights_node; and
\* the JSON response has one record for each of them.
C12_PartialHighlights ==
    (/\ pc \in {"end", "done", "raised"}
     /\ routed.task_type = <<"5">>
     /\ "companies" \in routed.keys
     /\ routed.companies # <<>>)
    => LET n      == Len(routed.companies)
           fs     == SelectSeq(calls, LAMBDA c : c.op = "fetch_highlights")
           failed == {i \in 1..n : ~fs[i].ok}
       IN  /\ pc # "raised"
           /\ Len(fs) = n
           /\ Len(highlights) = n - Cardinality(failed)
           /\ \A i \in (1..n) \ failed :
                 Cardinality({k \in DOMAIN highlights :
                                 /\ highlights[k].index = i
                                 /\ highlights[k].ticker
                                       = routed.companies[i].ticker}) = 1
           /\ \A k \in DOMAIN highlights : highlights[k].index \notin failed
           /\ "response" \in state.keys
           /\ (state.source # "cli" /\ highlights # <<>>)
                 => Cardinality({j \in DOMAIN state.response :
                                    state.response[j] = "{"})
                    = Len(highlights)

\* three companies, the fetch of one raised, two entries returned as JSON
C12_TwoOfThree ==
    /\ pc = "done"
    /\ state.source = "web"
    /\ Len(routed.companies) = 3
    /\ Cardinality({i \in DOMAIN calls :
                       calls[i].op = "fetch_highlights" /\ ~calls[i].ok}) = 1
    /\ Len(highlights) = 2
    /\ result = HighlightsJson(highlights)

\* C13: for the source "cli", when the summary call for the news of one
\* company fails in generate_highlights_node, the response still holds the
\* text blocks of the other companies of highlights.
C13_SummaryFailureIsolated ==
    (/\ pc = "done"
     /\ routed.task_type = <<"5">>
     /\ state.source = "cli")
    => \A i \in DOMAIN calls :
          (/\ calls[i].op = "llm"
           /\ calls[i].site = "highlights"
           /\ ~calls[i].ok)
          => \A k \in DOMAIN highlights :
                highlights[k].ticker # calls[i].arg
                   => Contains(result,
                               <<"**">> \o highlights[k].company \o <<" (">>
                               \o highlights[k].ticker \o <<")**\n">>)

\* C14 (as the specification states it): for a source other than "cli", the
\* Highlights response is a JSON array when the request resolved more than
\* one company and a bare JSON record when it resolved exactly one.
C14_ShapeByResolved ==
    (/\ pc = "done"
     /\ routed.task_type = <<"5">>
     /\ state.source # "cli"
     /\ "companies" \in routed.keys
     /\ routed.companies # <<>>)
    => /\ Len(routed.companies) > 1 => result[1] = "["
       /\ Len(routed.companies) = 1 => result[1] = "{"

\* C14 (amended): for a source other than "cli", the Highlights response
\* is a JSON array of the entries of highlights when the fetch succeeded
\* for more than one company, the bare record of the entry when it
\* succeeded for exactly one (however many the request resolved), and
\* "Error generating highlights." when it succeeded for none.
C14_ShapeByFetched ==
    (/\ pc = "done"
     /\ routed.task_type = <<"5">>
     /\ state.source # "cli"
     /\ "companies" \in routed.keys
     /\ routed.companies # <<>>)
    => LET records == Cardinality({j \in DOMAIN result : result[j] = "{"})
       IN  /\ Len(highlights) > 1
                => /\ result[1] = "[" /\ result[Len(result)] = "]"
                   /\ records = Len(highlights)
           /\ Len(highlights) = 1
                => /\ result[1] = "{" /\ result[Len(result)] = "}"
                   /\ records = 1
           /\ Len(highlights) = 0 => result = ErrorHighlights

\* two companies resolved, one fetch raised, a bare record returned
C14_BareRecordOfTwo ==
    /\ pc = "done"
    /\ state.source = "web"
    /\ routed.task_type = <<"5">>
    /\ Len(routed.companies) = 2
    /\ Len(highlights) = 1
    /\ result[1] = "{"

\* C15: in batch_analyze, when run_agent raises for one query of the batch,
\* the responses of the other queries are still returned, and only as many
\* results as queries failed are the error message.
C15_BatchFailureIsolated ==
    (/\ batch_pc = "returned"
     /\ \E i \in DOMAIN futures : futures[i].status = "raised")
    => /\ Len(batch_result) = Len(batch_queries)
       /\ \A i \in DOMAIN futures :
             futures[i].status = "returned"
                => \E j \in DOMAIN batch_result :
                      batch_result[j] = futures[i].value
       /\ Cardinality({j \in DOMAIN batch_result : batch_result[j] = BatchError})
          = Cardinality({i \in DOMAIN futures : futures[i].status = "raised"})

\* C16: batch_analyze returns a list whose i-th result is the response to
\* the i-th query, for every order in which the tasks complete.
C16_BatchOrderKept ==
    (/\ batch_pc = "returned"
     /\ \A i \in DOMAIN futures : futures[i].status = "returned")
    => /\ Len(batch_result) = Len(batch_queries)
       /\ \A i \in DOMAIN batch_result : batch_result[i] = futures[i].value

\* C17: a read of the cache for a ticker and a kind (metrics, news,
\* highlights) returns the payload of the most recent write for that ticker
\* and kind, unchanged, when there is one and the time since it is strictly
\* less than the TTL of the kind (86400 s for metrics and news, 300 s for
\* highlights); otherwise, also when exactly the TTL has passed, it
\* returns a miss.
C17_CacheRead ==
    cache_read.kind # "none"
    => LET ws == SelectSeq(SubSeq(writes, 1, cache_read.after),
                           LAMBDA w : /\ w.ticker = cache_read.ticker
                                      /\ w.kind = cache_read.kind)
           ttl == IF cache_read.kind = "highlights" THEN 300 ELSE 86400
       IN  IF ws # <<>> /\ cache_read.at - ws[Len(ws)].at < ttl
           THEN /\ cache_read.returned.hit
                /\ cache_read.returned.payload = ws[Len(ws)].payload
           ELSE ~cache_read.returned.hit

\* a metrics entry with a None value read back one second before it expires
C17_HitBeforeExpiry ==
    /\ cache_read.kind = "metrics"
    /\ cache_read.returned.hit
    /\ cache_read.returned.payload.items # <<>>
    /\ \E i \in 1..cache_read.after :
          /\ writes[i].kind = "metrics"
          /\ writes[i].ticker = cache_read.ticker
          /\ writes[i].payload = cache_read.returned.payload
          /\ cache_read.at - writes[i].at = 86399

\* C18: for every history length, the empty history included, a
\* get_stock_data that fetches returns the 50-day moving average as null
\* (None) when the history has fewer than 50 points and as a number
\* otherwise, likewise the 200-day moving average with 200 points.
C18_MovingAverageNull ==
    (/\ tool.name = "get_stock_data"
     /\ "fetch" \in {tool.steps[i] : i \in DOMAIN tool.steps}
     /\ tool.o.info = "ok")
    => LET ma50  == DictGet(tool.returned, "50d_ma")
           ma200 == DictGet(tool.returned, "200d_ma")
       IN  /\ tool.o.history < 50 => ma50 = "None"
           /\ tool.o.history >= 50 => ma50 \notin {"None", "NaN"}
           /\ tool.o.history < 200 => ma200 = "None"
           /\ tool.o.history >= 200 => ma200 \notin {"None", "NaN"}

\* C19: in get_stock_highlights, on whichever tier produces the snapshot,
\* when the previous close is 0 or missing the daily change of the returned
\* snapshot is null (None).
C19_DailyChangeNull ==
    (/\ tool.name = "get_stock_highlights"
     /\ tool.steps[Len(tool.steps)] = "write"
     /\ IF "tier2" \in {tool.steps[i] : i \in DOMAIN tool.steps}
        THEN Float(QuoteGet(tool.o.av.quote, "08. previous close", <<"0">>)) = 0
        ELSE tool.o.yf.prev_close \in {"None", "0"})
    => DictGet(tool.returned, "daily_change") = "None"

\* C20: on a miss of the news cache get_recent_news attempts the tiers in
\* the order 1 (the feed), 2 (the news of the price-history provider, at
\* most 5 items), 3 (the web search); tier 2 is attempted iff tier 1 raised
\* or gave no items; tier 3 is attempted iff tier 2 raised or gave no items
\* and a company name was supplied; the list returned is the list of the
\* first tier that produced items.
C20_NewsTiers ==
    (tool.name = "get_recent_news" /\ Len(tool.steps) > 1)
    => LET o      == tool.o
           tiers  == SelectSeq(tool.steps,
                               LAMBDA x : x \in {"tier1", "tier2", "tier3"})
           fails1 == o.feed # "items"
           fails2 == o.ynews_raise \/ o.ynews = 0
           items  == tool.returned.items
       IN  /\ tool.steps[1] = "cache"
           /\ tiers = SubSeq(<<"tier1", "tier2", "tier3">>, 1, Len(tiers))
           /\ Len(tiers) >= 1
           /\ Len(tiers) >= 2 <=> fails1
           /\ Len(tiers) >= 3 <=> (fails1 /\ fails2 /\ tool.company # <<>>)
           /\ ~fails1 => items = <<"a1", "a2">>
           /\ (fails1 /\ ~fails2) =>
                 /\ Len(items) = (IF o.ynews < 5 THEN o.ynews ELSE 5)
                 /\ \A k \in DOMAIN items : items[k] = "y" \o ToString(k)
           /\ (Len(tiers) = 3 /\ o.brave = "items") => items = <<"b1", "b2">>
           /\ (fails1 /\ fails2 /\ ~(Len(tiers) = 3 /\ o.brave = "items"))
                 => items = <<>>

\* the feed is empty, the news of the provider raise, a company name was
\* supplied, and the web search produces the list returned
C20_ThirdTierReturned ==
    /\ tool.name = "get_recent_news"
    /\ tool.company # <<>>
    /\ tool.o.feed = "empty" /\ tool.o.ynews_raise
    /\ tool.steps = <<"cache", "tier1", "tier2", "tier3", "write">>
    /\ tool.returned.items = <<"b1", "b2">>

\* C21: when a tier of get_recent_news produces items, the list returned is
\* in the news file of the ticker, written at the time of the call; when
\* every tier attempted gave nothing, the list returned is empty.
C21_NewsWrittenThrough ==
    (tool.name = "get_recent_news" /\ Len(tool.steps) > 1)
    => LET file     == CacheFile(tool.ticker, "news")
           produced == \/ tool.o.feed = "items"
                       \/ ~tool.o.ynews_raise /\ tool.o.ynews > 0
                       \/ tool.company # <<>> /\ tool.o.brave = "items"
       IN  /\ produced =>
                 /\ tool.returned.items # <<>>
                 /\ file \in DOMAIN cache
                 /\ JsonLoad(cache[file].text) = tool.returned
                 /\ cache[file].mtime = tool.at
           /\ ~produced => tool.returned = EmptyList

\* the second tier produced the five items that are returned and cached
C21_SecondTierCached ==
    /\ tool.name = "get_recent_news"
    /\ tool.steps = <<"cache", "tier1", "tier2", "write">>
    /\ Len(tool.returned.items) = 5
    /\ JsonLoad(cache[CacheFile(tool.ticker, "news")].text) = tool.returned

\* C22: on a miss of the highlights cache get_stock_highlights returns and
\* caches the snapshot of tier 1 iff tier 1 did not raise and had at least
\* 200 history points; otherwise it attempts tier 2; when tier 2 raises as
\* well it returns the empty mapping and leaves the files as they were.
C22_HighlightsTiers ==
    (tool.name = "get_stock_highlights" /\ Len(tool.steps) > 1)
    => LET file  == CacheFile(tool.ticker, "highlights")
           yf    == tool.o.yf
           ok1   == ~yf.raise /\ yf.history >= 200
           tier2 == "tier2" \in {tool.steps[i] : i \in DOMAIN tool.steps}
       IN  /\ ok1 <=> ~tier2
           /\ ok1 => /\ tool.steps = <<"cache", "tier1", "write">>
                     /\ DictGet(tool.returned, "current_price") = yf.current
                     /\ DictGet(tool.returned, "200d_ma") # "None"
                     /\ JsonLoad(cache[file].text) = tool.returned
                     /\ cache[file].mtime = tool.at
           /\ (~ok1 /\ tool.o.av.raise) =>
                     /\ tool.returned = EmptyDict
                     /\ cache = tool.before

\* a stale snapshot is in the file, tier 1 has 199 points, tier 2 raises:
\* the empty mapping is returned and the stale file is kept
C22_BothTiersFail ==
    /\ tool.name = "get_stock_highlights"
    /\ CacheFile(tool.ticker, "highlights") \in DOMAIN tool.before
    /\ ~tool.o.yf.raise /\ tool.o.yf.history = 199
    /\ tool.o.av.raise
    /\ tool.steps = <<"cache", "tier1", "tier2">>
    /\ tool.returned = EmptyDict
    /\ cache = tool.before

\* C25: get_stock_data fetches iff the metrics file of the ticker is absent
\* or 24 hours old; on a hit it returns the payload of the file and leaves
\* the files as they were; on a miss with a fetch that succeeds the file
\* holds the metrics returned, written at the time of the call.
C25_FetchIffNoFreshEntry ==
    tool.name = "get_stock_data"
    => LET file  == CacheFile(tool.ticker, "metrics")
           fresh == /\ file \in DOMAIN tool.before
                    /\ tool.at - tool.before[file].mtime
                          < CACHE_EXPIRATION_SECONDS
           fetch == "fetch" \in {tool.steps[i] : i \in DOMAIN tool.steps}
       IN  /\ fetch <=> ~fresh
           /\ fresh => /\ tool.returned = JsonLoad(tool.before[file].text)
                       /\ cache = tool.before
           /\ (~fresh /\ tool.o.info = "ok" /\ tool.o.history > 0) =>
                       /\ tool.returned.items # <<>>
                       /\ JsonLoad(cache[file].text) = tool.returned
                       /\ cache[file].mtime = tool.at

\* the second call comes one second before the entry of the first expires
\* and returns what the first wrote, without a fetch
C25_HitWithoutFetch ==
    /\ tool.name = "get_stock_data" /\ ~tool.first
    /\ tool.at = CACHE_EXPIRATION_SECONDS - 1
    /\ tool.steps = <<"cache">>
    /\ tool.returned = JsonLoad(tool.before[CacheFile(tool.ticker, "metrics")].text)
    /\ cache = tool.before

\* C26: when the fetch or the computation of get_stock_data raises, the
\* empty mapping is returned and the metrics file of the ticker, absent or
\* stale, is left as it was.
C26_FetchFailureLeavesCache ==
    (/\ tool.name = "get_stock_data"
     /\ "fetch" \in {tool.steps[i] : i \in DOMAIN tool.steps}
     /\ (tool.o.info = "raise" \/ tool.o.history = 0))
    => /\ tool.returned = EmptyDict
       /\ cache = tool.before

\* the fetch raises over a stale entry, which stays in the file
C26_StaleEntryKept ==
    /\ tool.name = "get_stock_data"
    /\ tool.o.info = "raise"
    /\ CacheFile(tool.ticker, "metrics") \in DOMAIN tool.before
    /\ tool.steps = <<"cache", "fetch">>
    /\ tool.returned = EmptyDict
    /\ cache = tool.before

C24_EmptyNewsNotSummarised ==
    (/\ pc = "end"
     /\ state.task_type = <<"3">>
     /\ state.source = "cli"
     /\ "news" \in state.keys /\ state.news = <<>>)
    => /\ \A i \in DOMAIN calls :
             ~(calls[i].op = "llm" /\ calls[i].site = "company_news")
       /\ "response" \in state.keys
       /\ state.response \notin GenTexts

\* C27: on a Report miss the generation call is made only after the fetch
\* of the metrics and the fetch of the news have both finished, whichever
\* finished first, and its prompt is made of what the two fetches returned,
\* whatever the order they finished in.
C27_GenerationAfterBothFetches ==
    \A i \in DOMAIN calls :
       (calls[i].op = "llm" /\ calls[i].site = "report")
       => /\ pool.data.status = "done" /\ pool.news.status = "done"
          /\ {pool.finished[k] : k \in DOMAIN pool.finished} = {"data", "news"}
          /\ \E j, k \in 1..(i - 1) :
                /\ calls[j].op = "get_stock_data"
                /\ calls[k].op = "get_company_news"
          /\ calls[i].arg = ReportPrompt(pool.data.value,
                                         CleanNews(pool.news.value))

\* the news arrived before the metrics, and the generation call was made
\* with both
C27_NewsFinishedFirst ==
    /\ pool.pc = "done"
    /\ pool.finished = <<"news", "data">>
    /\ pool.news.value # <<>>
    /\ calls[Len(calls)].op = "llm"
    /\ calls[Len(calls)].arg = ReportPrompt("metrics", CleanNews(pool.news.value))

\* C28: on a Report miss the report file of (ticker, today) is there after
\* the node iff the generation call succeeded, and then holds exactly the
\* response; when a fetch or the generation call raised, the files are as
\* they were and the response is the error string.
C28_ReportFileAfterGeneration ==
    (/\ pc = "end"
     /\ state.task_type = <<"1">>
     /\ "ticker" \in state.keys /\ state.ticker # <<>>
     /\ ~Exists(before.reports, FileName(state.ticker, today)))
    => LET file  == FileName(state.ticker, today)
           genok == \E i \in DOMAIN calls :
                       /\ calls[i].op = "llm"
                       /\ calls[i].site = "report"
                       /\ calls[i].ok
       IN  /\ Exists(reports, file) <=> genok
           /\ genok => /\ reports[file] = state.response
                       /\ state.response \in GenTexts
           /\ ~genok => /\ reports = before.reports
                        /\ state.response = ErrorReport

\* a report of two lines was generated and is in the file as it was returned
C28_ReportSaved ==
    /\ pc = "end"
    /\ state.task_type = <<"1">>
    /\ ~Exists(before.reports, FileName(state.ticker, today))
    /\ Exists(reports, FileName(state.ticker, today))
    /\ Len(state.response) > 1
    /\ reports[FileName(state.ticker, today)] = state.response

\* C29: for the resolved company list of a Highlights request and any
\* results of the per-company fetches, generate_highlights_node gives the
\* same response for every order in which the tasks complete.
C29_SameForEveryOrder ==
    (/\ pc = "route"
     /\ state.task_type = <<"5">>
     /\ "companies" \in state.keys)
    => LET n   == Len(state.companies)
           gen == [i \in 1..n |-> [ok |-> TRUE, content |-> <<"Text A">>]]
       IN  \A f \in [1..n -> FetchOutcomes] :
           \A o1, o2 \in Orders(n) :
              generate_highlights_node(Ctx,
                    [fetch |-> f, order |-> o1, gen |-> gen]).st.response
              = generate_highlights_node(Ctx,
                    [fetch |-> f, order |-> o2, gen |-> gen]).st.response

\* C30: a read of the cache for (ticker, kind) that comes while writes to
\* the same (ticker, kind) are made raises nothing and returns a miss or a
\* payload that one of the writes wrote.
C30_ReadSeesWholeEntry ==
    cache_read.kind # "none"
    => /\ ~cache_read.raised
       /\ cache_read.returned.hit =>
             \E i \in DOMAIN writes :
                /\ writes[i].ticker = cache_read.ticker
                /\ writes[i].kind = cache_read.kind
                /\ writes[i].payload = cache_read.returned.payload

\* C35: get_recent_news never writes an empty list to the news file:
\* whenever it returns an empty list on a miss the files are as they were,
\* and a news file always holds at least one item.
C35_NoEmptyNewsCached ==
    (tool.name = "get_recent_news" /\ Len(tool.steps) > 1)
    => /\ tool.returned.items = <<>> => cache = tool.before
       /\ \A f \in DOMAIN cache :
             f[2] = "news" => JsonLoad(cache[f].text).items # <<>>

\* C36: get_stock_highlights never returns or caches as a snapshot a record
\* whose four fields are all null: when tier 2 answers without a quote and
\* without a time series the result is the empty mapping and the files are
\* as they were.
C36_NoAllNullSnapshot ==
    (tool.name = "get_stock_highlights" /\ Len(tool.steps) > 1)
    => LET allnull(d) ==
              /\ d.items # <<>>
              /\ \A k \in DOMAIN d.items : d.items[k][2] = "None"
           file == CacheFile(tool.ticker, "highlights")
       IN  /\ ~allnull(tool.returned)
           /\ file \in DOMAIN cache => ~allnull(JsonLoad(cache[file].text))
           /\ (/\ "tier2" \in {tool.steps[i] : i \in DOMAIN tool.steps}
               /\ ~tool.o.av.raise
               /\ tool.o.av.quote = <<>> /\ tool.o.av.series = 0)
              => tool.returned = EmptyDict /\ cache = tool.before

\* C31: when two callers of get_stock_data for one ticker both found no
\* file, both fetched and both wrote, the file holds the payload of the
\* write that came last, and each caller returned the payload it fetched.
C31_LastWriterWins ==
    (/\ tool.name = "race"
     /\ Len(writes) = 2
     /\ \A i \in Callers : tool.callers[i].pc = "done")
    => /\ cache[RaceFile].text = MetricsBytes(writes[Len(writes)].payload)
       /\ \A i \in Callers : tool.callers[i].returned = tool.callers[i].payload

\* C32: on the generation path of the extraction of a company list (task
\* type 5, nothing found by the lookup, the reply parsed to a list), every
\* entry of the resulting list has an upper-cased ticker, no two entries
\* have tickers that are equal ignoring case, no entry without a company or
\* a ticker is in the list, and every ticker of a well-formed entry of the
\* reply is in the list.
C32_FallbackListNormalised ==
    (/\ pc = "router"
     /\ HasOverride(state.query)
     /\ PrefixGroup1(state.query) = <<"5">>
     /\ LookupCompanies(Strip(PrefixGroup2(state.query))) = <<>>)
    => \A many \in ExtractManyReplies :
          many.kind = "list"
          => LET st   == router_node(Ctx, NoReply, NoReply, many).st
                 L    == IF "companies" \in st.keys THEN st.companies ELSE <<>>
                 good == {k \in DOMAIN many.entries :
                             /\ many.entries[k].isdict
                             /\ {"company", "ticker"} \subseteq many.entries[k].has}
             IN  /\ \A k \in DOMAIN L : L[k].ticker = Upper(L[k].ticker)
                 /\ \A a, b \in DOMAIN L :
                       a # b => Upper(L[a].ticker) # Upper(L[b].ticker)
                 /\ \A k \in DOMAIN L : \E g \in good :
                       /\ many.entries[g].company = L[k].company
                       /\ Upper(many.entries[g].ticker) = Upper(L[k].ticker)
                 /\ \A g \in good : \E k \in DOMAIN L :
                       Upper(L[k].ticker) = Upper(many.entries[g].ticker)

C34_OverviewHitFrame ==
    (/\ pc \in {"end", "done"}
     /\ routed.task_type = <<"2">>
     /\ "ticker" \in state.keys
     /\ Exists(before.overviews, FileName(state.ticker, today)))
    => LET text == before.overviews[FileName(state.ticker, today)]
           r    == state.response
       IN  /\ Len(r) >= Len(text) /\ SubSeq(r, 1, Len(text)) = text
           /\ \/ r = text
              \/ \E p \in PriceOutcomes \ {"raise", "none"} :
                    r = text \o <<LivePriceLabel, p>>
           /\ (\E i \in DOMAIN calls :
                  calls[i].op = "live_price" /\ ~calls[i].ok) => r = text
           /\ \A i \in DOMAIN calls : calls[i].op = "live_price"
           /\ overviews = before.overviews
           /\ reports = before.reports
           /\ generated = {}

\* C37: a report file of the day is written only by a request whose metrics
\* fetch returned metrics: when get_stock_data returned the empty mapping
\* no report file is created.
C37_NoReportWithoutMetrics ==
    (/\ pc \in {"end", "done"}
     /\ "ticker" \in state.keys
     /\ Exists(reports, FileName(state.ticker, today))
     /\ ~Exists(before.reports, FileName(state.ticker, today)))
    => state.data = "metrics"

\* C38: when Report and Overview requests for one ticker run at the same
\* time on one day, the report file of the day is written at most once, it
\* holds what that write put there, and every Report request that did not
\* fail returned the content of the file.
C38_ReportWrittenOnce ==
    pool.pc = "threads"
    => /\ Len(writes) <= 1
       /\ writes # <<>> => reports[DayFile] = writes[1].file
       /\ \A i \in Threads :
             (/\ pool.threads[i].kind = "report"
              /\ pool.threads[i].pc = "done"
              /\ pool.threads[i].response # ErrorReport)
             => /\ Exists(reports, DayFile)
                /\ pool.threads[i].response = reports[DayFile]

\* C39: when router_node has returned with task type 1, 2 or 3, the company
\* and the ticker are both set or both unset, whatever the extraction call
\* replied.
C39_CompanyAndTickerTogether ==
    (pc = "route" /\ routed.task_type \in {<<"1">>, <<"2">>, <<"3">>})
    => ("company" \in routed.keys <=> "ticker" \in routed.keys)

====
